---- MODULE Spec2Model ----
(***************************************************************************)
(* Verification model of agent-office: the backend agent registry and its  *)
(* WebSocket broadcast engine, the CLI monitor's refresh guard and the     *)
(* CLI's server-sync client.                                               *)
(***************************************************************************)
EXTENDS Integers, Sequences, FiniteSets, TLC

\* ---------------------------------------------------------------- bounds
MaxOps == 3          \* registry calls per behaviour, registry alone
MaxBroadcastOps == 2 \* registry calls per behaviour, with subscribers
MaxConnects == 2     \* subscriber connections per behaviour
MaxStatsTicks == 1   \* firings of the 5 s stats interval per behaviour
MaxTime == 1         \* clock ticks per behaviour
MaxRequests == 4     \* calls of debouncedRefreshCycle by the timers per behaviour
MaxFileEvents == 3   \* file watcher notifications per behaviour
MaxCycles == 2       \* refresh-and-sync cycles per behaviour
MaxExternalOps == 4  \* registry calls made by others than the client per behaviour
MaxNetErrors == 1    \* failed HTTP exchanges per behaviour
MaxSyncTime == 1     \* clock ticks per behaviour, client and server together
MaxFileBytes == 12   \* size of the followed log file
MaxRewrites == 1     \* truncations and deletions of the log file per behaviour
MaxRawWrites == 1    \* torn (single byte) writes to the log file per behaviour
MaxCachedMessages == 2   \* the reader's configured cache cap (200 by default)
MaxIdleOps == 4      \* registry calls per behaviour next to the idle-action service
MaxCans == 2         \* idle actions assigned per behaviour
MaxWindow == 2       \* messages in a classified window
MaxTokens == 3       \* tokens issued per behaviour
MaxTokenTime == 3    \* clock ticks next to the token store
MaxRetryTime == 8    \* clock ticks while the client's calls are under way
MaxDebounceTicks == 4  \* half debounce delays per behaviour
MaxCleanupOps == 2     \* authenticated agent creations per behaviour
MaxCleanupTime == 3    \* token lifetimes the cleanup clock runs for
MaxCleanupTokens == 2  \* tokens issued while the cleanup runs
MaxViewerOps == 3      \* registry calls per behaviour, with viewers
MaxReapOps == 3        \* reaps and refreshes per behaviour
MaxOverlapCycles == 2  \* refresh-and-sync cycles next to the reap timer
MaxRetryCycles == 1  \* sync cycles per behaviour while tokens expire under the calls
MaxBlocks == 2       \* content blocks in a message

\* ------------------------------------------------------ program constants
MaxDepth == 3        \* create/update recursion limit of the sync client
MaxRetry == 3        \* 401 retry limit of the sync client
TokenLifetime == 1   \* config.tokenExpirySeconds, in clock ticks

\* ------------------------------------------------------------ input sets
AgentIds == {"s1", "s2"}
OwnerKeys == {"k1", "k2"}
DisplayNames == {"n1"}
Clients == {"w1", "w2"}
Null == "null"
\* an optional value: the return value of a call that may return null
None == <<>>
Some(x) == <<x>>

WorkingActivities == {"thinking", "working", "coding", "reading", "writing"}
IdleActivities == {"done", "idle", "waiting", "paused"}
LeavingActivities == {"leaving", "offline", "disconnected"}
AgentActivity == WorkingActivities \cup IdleActivities \cup LeavingActivities
\* activities the registry's callers are given in each specification
RegistryActivities == {"thinking", "writing", "done", "waiting", "leaving", "offline"}
BroadcastActivities == {"thinking", "done"}

VARIABLES
  agents,            \* agent-manager.ts: Map id -> Agent (as a function)
  agentOrder,        \* insertion order of the Map's keys
  now,               \* Date.now()
  connectedClients,  \* server.ts: Set<WebSocket>
  readyState,        \* per socket: "CLOSED" | "OPEN" | "CLOSING"
  inbox,             \* per socket: messages written to it since it connected
  eventLog,          \* history: registry events in the order they succeeded
  connAt,            \* history: Len(eventLog) when the socket connected
  snapAt,            \* history: registry ids (in order) when the socket connected
  lastCall,          \* history: the last registry call and its return value
  opCount,           \* number of registry calls so far
  connCount,         \* number of connections so far
  statsTicks,        \* number of stats-interval firings so far
  \* ---- cli/src/monitor.ts: ClaudeMonitor
  isRefreshing,      \* this.isRefreshing
  refreshPending,    \* this.refreshPending
  debounceTimer,     \* this.debounceTimer: the handle of the last timer set (0 = null)
  armedTimers,       \* the debounce timeouts pending in the event loop, by handle
  timerLog,          \* history, by handle: when the timer was set, how often it fired
  cyclePc,           \* where the running cycle is suspended: "idle" | "refresh" | "sync"
  hasServerClient,   \* this.serverClient is not null
  requests,          \* history: calls of debouncedRefreshCycle by the timers
  fileEvents,        \* history: file watcher notifications
  cyclesStarted,     \* history: cycles that passed the guard
  cyclesDone,        \* history: cycles that reached their finally block
  reqDuring,         \* history: timer calls that arrived during the running cycle
  coalesced,         \* history: timer calls folded into the running cycle
  \* ---- cli sync client (ServerClient) and the monitor's session map
  sessions,          \* ClaudeMonitor.sessions: agentId -> [activity, pct]
  token,             \* ServerClient.token (0 = null)
  tokenExpiresAt,    \* ServerClient.tokenExpiresAt
  syncedAgents,      \* ServerClient.syncedAgents
  lastActivityMap,   \* ServerClient.lastActivityMap
  lastContextMap,    \* ServerClient.lastContextMap
  syncTask,          \* the running syncAll: loop position and madeApiCall
  req,               \* per task: the request() call it is suspended in
  posted,            \* history: activities sent in POST /agents
  cycles,            \* history: syncAll runs started
  cycleCalls,        \* history: the calls the current syncAll has made
  extOps,            \* history: registry calls made by others
  netErrors,         \* history: failed HTTP exchanges
  lastHandled,       \* history: the last response the client resumed on
  \* ---- backend token-manager.ts
  tokens,            \* Map token -> Token
  tokenCounter,      \* tokens issued so far (stands for uuidv4)
  lastTokenCall,     \* history: the last token-manager call and what it returned
  recordEvents,      \* whether the histories eventLog and lastCall are kept
  \* ---- cli incremental reader (IncrementalReader) and the log file it follows
  fileContent,       \* the bytes of the JSONL file
  fileExists,        \* whether stat() finds the file
  filePositions,     \* IncrementalReader.filePositions
  messageCache,      \* IncrementalReader.messageCache
  readPc,            \* where the running readNewLines call is suspended
  readCall,          \* its locals: currentSize, lastPosition; history: didReset, snapshot
  readResult,        \* history: what the last finished readNewLines returned
  syncedContent,     \* history: the file content the stored offset accounts for
  rewrites,          \* history: truncations and deletions so far
  rawWrites,         \* history: torn writes so far
  \* ---- backend idle-action-service.ts and cleaning-service.ts
  idleActions,       \* agent.idleAction per agent: absent = undefined, None = null
  pendingTimers,     \* pendingTimers: agents with a scheduled idle-action timer
  canCount,          \* cleaning-service canCount
  idleNotices,       \* history: calls of the idle-action notifyListeners so far
  \* ---- calls of pure functions
  pureCall,          \* the function called and its arguments
  pureResult,        \* what it returned (None before the call)
  \* ---- cli monitor.ts: reaping
  clock,             \* Date.now() of the monitor, in ms
  reapLog,           \* history: the last reap or refresh and what it did
  \* ---- backend websocket/server.ts: the sockets
  failingSends,      \* the sockets on which client.send throws
  \* ---- gui game.gd: one viewer behind each socket
  viewers            \* per socket: messages handled so far, _agents_by_id

idleVars == <<idleActions, pendingTimers, canCount, idleNotices>>

pureVars == <<pureCall, pureResult>>

reapVars == <<clock, reapLog>>

regVars == <<agents, agentOrder, now, connectedClients, readyState, inbox,
             eventLog, connAt, snapAt, lastCall, opCount, connCount, statsTicks,
             idleVars>>

monVars == <<isRefreshing, refreshPending, debounceTimer, armedTimers, timerLog,
             cyclePc, hasServerClient, requests, fileEvents, cyclesStarted, cyclesDone, reqDuring, coalesced>>

syncVars == <<sessions, token, tokenExpiresAt, syncedAgents, lastActivityMap,
              lastContextMap, syncTask, req, posted, cycles, cycleCalls,
              extOps, netErrors, lastHandled>>

tokVars == <<tokens, tokenCounter, lastTokenCall>>

readerVars == <<fileContent, fileExists, filePositions, messageCache, readPc, readCall,
                readResult, syncedContent, rewrites, rawWrites>>

vars == <<regVars, monVars, syncVars, tokVars, recordEvents, readerVars, pureVars, reapVars, failingSends, viewers>>

\* everything but the registry and broadcast state
nonRegVars == <<monVars, syncVars, tokVars, recordEvents, readerVars, pureVars, reapVars, failingSends, viewers>>

\* ------------------------------------------------------- pure functions
\* mutant: paused is taken for a working activity
mapActivityToState_pausedWorking(activity) ==
  CASE activity \in {"thinking", "working", "coding", "reading", "writing", "paused"} -> "WORKING"
    [] activity \in {"done", "idle", "waiting"} -> "IDLE"
    [] activity \in {"leaving", "offline", "disconnected"} -> "LEAVING"
    [] OTHER -> "IDLE"

\* state-mapper: activity -> state
mapActivityToState(activity) ==
  CASE activity \in {"thinking", "working", "coding", "reading", "writing"} -> "WORKING"
    [] activity \in {"done", "idle", "waiting", "paused"} -> "IDLE"
    [] activity \in {"leaving", "offline", "disconnected"} -> "LEAVING"
    [] OTHER -> "IDLE"

\* config: the display name configured for an API key
ownerDisplayNameOf(key) == "user-" \o key

RECURSIVE SeqRemove(_, _)
SeqRemove(s, x) ==
  IF s = <<>> THEN <<>>
  ELSE IF Head(s) = x THEN SeqRemove(Tail(s), x)
  ELSE <<Head(s)>> \o SeqRemove(Tail(s), x)

SeqToSet(s) == {s[i] : i \in 1..Len(s)}

\* getAllAgents / getAgentsByOwner on a given Map
getAllAgents(ags, order) == [i \in 1..Len(order) |-> ags[order[i]]]
getAgentsByOwner(ags, key) == {i \in DOMAIN ags : ags[i].ownerKey = key}

\* --------------------------------------------------- websocket messages
SpawnAgentMsg(agent) ==
  [type |-> "spawn_agent", id |-> agent.id, displayName |-> agent.displayName,
   userName |-> agent.ownerDisplayName, state |-> agent.state]
UpdateAgentMsg(agent) == [type |-> "update_agent", id |-> agent.id, state |-> agent.state]
RemoveAgentMsg(agent) == [type |-> "remove_agent", id |-> agent.id]
SyncCompleteMsg(ids) == [type |-> "sync_complete", agentIds |-> ids]

buildUserStatsPayload(ags) ==
  [type |-> "user_stats",
   agentCount |-> [k \in OwnerKeys |-> Cardinality(getAgentsByOwner(ags, k))],
   totalAgents |-> Cardinality(DOMAIN ags)]

\* mutant: a send that throws is not caught, nobody is written to
send_failureStopsAll(inb, c, message) ==
  IF failingSends # {} THEN inb ELSE [inb EXCEPT ![c] = Append(@, message)]

\* try { client.send(json) } catch: the message is written to the socket
\* unless send throws, and then the exception is logged and nothing else
send(inb, c, message) ==
  IF c \in failingSends THEN inb ELSE [inb EXCEPT ![c] = Append(@, message)]

\* mutant: the loop stops after the first socket
broadcastToClients_firstOnly(inb, message) ==
  IF connectedClients = {} THEN inb
  ELSE LET first == CHOOSE c \in connectedClients : TRUE
       IN IF readyState[first] = "OPEN" THEN send(inb, first, message) ELSE inb

\* broadcastToClients: every socket of connectedClients whose readyState is OPEN
broadcastToClients(inb, message) ==
  IF connectedClients = {} THEN inb
  ELSE [c \in Clients |->
          IF c \in connectedClients /\ readyState[c] = "OPEN"
          THEN send(inb, c, message)[c] ELSE inb[c]]

\* sendToClient: one socket, only if OPEN
sendToClient(inb, rs, c, message) ==
  IF rs[c] # "OPEN" THEN inb ELSE send(inb, c, message)

broadcastSpawnAgent(inb, agent) == broadcastToClients(inb, SpawnAgentMsg(agent))
broadcastUpdateAgent(inb, agent) == broadcastToClients(inb, UpdateAgentMsg(agent))
broadcastRemoveAgent(inb, agent) == broadcastToClients(inb, RemoveAgentMsg(agent))
broadcastUserStats(inb, ags) == broadcastToClients(inb, buildUserStatsPayload(ags))

\* the listener the websocket server registers with onAgentChange
onAgentChange(inb, type, agent, ags) ==
  CASE type = "spawn" -> broadcastUserStats(broadcastSpawnAgent(inb, agent), ags)
    [] type = "update" -> broadcastUpdateAgent(inb, agent)
    [] type = "remove" -> broadcastUserStats(broadcastRemoveAgent(inb, agent), ags)

MapSet(f, k, v) == [x \in DOMAIN f \cup {k} |-> IF x = k THEN v ELSE f[x]]
MapDel(f, k) == [x \in DOMAIN f \ {k} |-> f[x]]
MapHas(f, k, v) == k \in DOMAIN f /\ f[k] = v

\* ------------------------------------------- idle-action-service.ts
pickAction == "get_drink"

\* countActiveIdleActions: IDLE agents whose idleAction !== null
countActiveIdleActions(ags, acts) ==
  Cardinality({i \in DOMAIN ags :
                 ags[i].state = "IDLE" /\ ~MapHas(acts, i, None)})

countIdleAgents(ags) ==
  Cardinality({i \in DOMAIN ags : ags[i].state = "IDLE"})

\* mutant: a state change away from IDLE cancels the timer but keeps an assigned action
handleAgentChange_keepAction(type, agent, acts, timers) ==
  CASE type = "spawn" ->
         [acts |-> acts,
          timers |-> IF agent.state = "IDLE" THEN timers \cup {agent.id} ELSE timers,
          notices |-> 0]
    [] type = "update" ->
         IF agent.state = "IDLE" /\ MapHas(acts, agent.id, None)
         THEN [acts |-> acts, timers |-> timers \cup {agent.id}, notices |-> 0]
         ELSE IF agent.state # "IDLE"
         THEN [acts |-> IF agent.id \notin DOMAIN acts
                        THEN MapSet(acts, agent.id, None) ELSE acts,
               timers |-> timers \ {agent.id},
               notices |-> IF agent.id \notin DOMAIN acts THEN 1 ELSE 0]
         ELSE [acts |-> acts, timers |-> timers, notices |-> 0]
    [] type = "remove" -> [acts |-> acts, timers |-> timers \ {agent.id}, notices |-> 0]

\* mutant: the action is cleared but the pending timer is left running
leftIdle_keepTimer(agent, acts, timers) ==
  IF ~MapHas(acts, agent.id, None)
  THEN [acts |-> MapSet(acts, agent.id, None), timers |-> timers, notices |-> 1]
  ELSE [acts |-> acts, timers |-> timers, notices |-> 0]

\* handleAgentChange, the agent is not IDLE: cancelPendingTimer, and an
\* idleAction other than null is set to null and the listeners are notified
leftIdle(agent, acts, timers) ==
  IF ~MapHas(acts, agent.id, None)
  THEN [acts |-> MapSet(acts, agent.id, None), timers |-> timers \ {agent.id},
        notices |-> 1]
  ELSE [acts |-> acts, timers |-> timers \ {agent.id}, notices |-> 0]

\* handleAgentChange: the registry listener; scheduleIdleAction and
\* cancelPendingTimer act on the set of pending timers
handleAgentChange(type, agent, acts, timers) ==
  CASE type = "spawn" ->
         [acts |-> acts,
          timers |-> IF agent.state = "IDLE" THEN timers \cup {agent.id} ELSE timers,
          notices |-> 0]
    [] type = "update" ->
         IF agent.state = "IDLE" /\ MapHas(acts, agent.id, None)
         THEN [acts |-> acts, timers |-> timers \cup {agent.id}, notices |-> 0]
         ELSE IF agent.state # "IDLE"
         THEN leftIdle(agent, acts, timers)
         ELSE [acts |-> acts, timers |-> timers, notices |-> 0]
    [] type = "remove" -> [acts |-> acts, timers |-> timers \ {agent.id}, notices |-> 0]

\* notifyListeners: runs every registered listener on the event; an agent
\* object is created without an idleAction property and takes it along when
\* it is deleted
notifyListeners(type, agent, ags) ==
  /\ LET own == IF type = "update" THEN idleActions ELSE MapDel(idleActions, agent.id)
         h == handleAgentChange(type, agent, own, pendingTimers)
     IN /\ idleActions' = h.acts
        /\ pendingTimers' = h.timers
        /\ idleNotices' = IF recordEvents THEN idleNotices + h.notices ELSE idleNotices
  /\ UNCHANGED canCount
  /\ inbox' = onAgentChange(inbox, type, agent, ags)
  /\ eventLog' = IF recordEvents
                 THEN Append(eventLog, [type |-> type, id |-> agent.id, state |-> agent.state])
                 ELSE eventLog

\* history of the last registry call and what it returned
recordCall(op, id, ownerKey, result) ==
  lastCall' = IF recordEvents
              THEN [op |-> op, id |-> id, ownerKey |-> ownerKey, result |-> result]
              ELSE lastCall

\* ------------------------------------------------------ registry calls
\* mutant: no agents.has(id) check, the new agent replaces the old one
createAgent_overwrite(id, displayName, activity, ownerKey) ==
  LET agent == [id |-> id, displayName |-> displayName, activity |-> activity,
                state |-> mapActivityToState(activity), ownerKey |-> ownerKey,
                ownerDisplayName |-> ownerDisplayNameOf(ownerKey),
                createdAt |-> now, updatedAt |-> now]
      ags == [i \in DOMAIN agents \cup {id} |-> IF i = id THEN agent ELSE agents[i]]
  IN /\ agents' = ags
     /\ agentOrder' = IF id \in DOMAIN agents THEN agentOrder ELSE Append(agentOrder, id)
     /\ notifyListeners("spawn", agent, ags)
     /\ recordCall("create", id, ownerKey, Some(agent))

createAgent(id, displayName, activity, ownerKey) ==
  IF id \in DOMAIN agents
  THEN /\ recordCall("create", id, ownerKey, None)
       /\ UNCHANGED <<agents, agentOrder, inbox, eventLog, idleVars>>
  ELSE LET agent == [id |-> id, displayName |-> displayName, activity |-> activity,
                     state |-> mapActivityToState(activity), ownerKey |-> ownerKey,
                     ownerDisplayName |-> ownerDisplayNameOf(ownerKey),
                     createdAt |-> now, updatedAt |-> now]
           ags == [i \in DOMAIN agents \cup {id} |-> IF i = id THEN agent ELSE agents[i]]
       IN /\ agents' = ags
          /\ agentOrder' = Append(agentOrder, id)
          /\ notifyListeners("spawn", agent, ags)
          /\ recordCall("create", id, ownerKey, Some(agent))

\* mutant: the state is not recomputed from the new activity
updateAgentActivity_staleState(id, activity, ownerKey) ==
  IF id \notin DOMAIN agents \/ agents[id].ownerKey # ownerKey
  THEN /\ recordCall("update", id, ownerKey, None)
       /\ UNCHANGED <<agents, agentOrder, inbox, eventLog, idleVars>>
  ELSE LET agent == [agents[id] EXCEPT !.activity = activity, !.updatedAt = now]
           ags == [agents EXCEPT ![id] = agent]
       IN /\ agents' = ags
          /\ UNCHANGED agentOrder
          /\ notifyListeners("update", agent, ags)
          /\ recordCall("update", id, ownerKey, Some(agent))

updateAgentActivity(id, activity, ownerKey) ==
  IF id \notin DOMAIN agents \/ agents[id].ownerKey # ownerKey
  THEN /\ recordCall("update", id, ownerKey, None)
       /\ UNCHANGED <<agents, agentOrder, inbox, eventLog, idleVars>>
  ELSE LET agent == [agents[id] EXCEPT !.activity = activity,
                                       !.state = mapActivityToState(activity),
                                       !.updatedAt = now]
           ags == [agents EXCEPT ![id] = agent]
       IN /\ agents' = ags
          /\ UNCHANGED agentOrder
          /\ notifyListeners("update", agent, ags)
          /\ recordCall("update", id, ownerKey, Some(agent))

\* mutant: no ownership check
removeAgent_anyOwner(id, ownerKey) ==
  IF id \notin DOMAIN agents
  THEN /\ recordCall("remove", id, ownerKey, None)
       /\ UNCHANGED <<agents, agentOrder, inbox, eventLog, idleVars>>
  ELSE LET agent == agents[id]
           ags == [i \in DOMAIN agents \ {id} |-> agents[i]]
       IN /\ agents' = ags
          /\ agentOrder' = SeqRemove(agentOrder, id)
          /\ notifyListeners("remove", agent, ags)
          /\ recordCall("remove", id, ownerKey, Some(agent))

removeAgent(id, ownerKey) ==
  IF id \notin DOMAIN agents \/ agents[id].ownerKey # ownerKey
  THEN /\ recordCall("remove", id, ownerKey, None)
       /\ UNCHANGED <<agents, agentOrder, inbox, eventLog, idleVars>>
  ELSE LET agent == agents[id]
           ags == [i \in DOMAIN agents \ {id} |-> agents[i]]
       IN /\ agents' = ags
          /\ agentOrder' = SeqRemove(agentOrder, id)
          /\ notifyListeners("remove", agent, ags)
          /\ recordCall("remove", id, ownerKey, Some(agent))

\* ------------------------------------------- registry actions (callers)
CreateAgentCall(acts, owners, maxOps) ==
  /\ opCount < maxOps
  /\ \E id \in AgentIds, dn \in DisplayNames, a \in acts, k \in owners :
       createAgent(id, dn, a, k)
  /\ opCount' = opCount + 1
  /\ UNCHANGED <<now, connectedClients, readyState, connAt, snapAt, connCount, statsTicks>>
  /\ UNCHANGED nonRegVars

UpdateAgentCall(acts, maxOps) ==
  /\ opCount < maxOps
  /\ \E id \in AgentIds, a \in acts, k \in OwnerKeys :
       updateAgentActivity(id, a, k)
  /\ opCount' = opCount + 1
  /\ UNCHANGED <<now, connectedClients, readyState, connAt, snapAt, connCount, statsTicks>>
  /\ UNCHANGED nonRegVars

RemoveAgentCall(maxOps) ==
  /\ opCount < maxOps
  /\ \E id \in AgentIds, k \in OwnerKeys : removeAgent(id, k)
  /\ opCount' = opCount + 1
  /\ UNCHANGED <<now, connectedClients, readyState, connAt, snapAt, connCount, statsTicks>>
  /\ UNCHANGED nonRegVars

\* ------------------------------------------------ websocket server side
\* mutant: the replay loop stops one agent short
syncAgentsToClient_shortReplay(inb, rs, c, ags, order) ==
  LET all == getAllAgents(ags, order)
      Replay[n \in 0..Len(all)] ==
        IF n = 0 THEN inb ELSE sendToClient(Replay[n - 1], rs, c, SpawnAgentMsg(all[n]))
      agentIds == [i \in 1..Len(all) |-> all[i].id]
      short == IF Len(all) = 0 THEN 0 ELSE Len(all) - 1
      afterSync == sendToClient(Replay[short], rs, c, SyncCompleteMsg(agentIds))
  IN sendToClient(afterSync, rs, c, buildUserStatsPayload(ags))

\* syncAgentsToClient: replay, sync_complete, user stats, on one socket
syncAgentsToClient(inb, rs, c, ags, order) ==
  LET all == getAllAgents(ags, order)
      Replay[n \in 0..Len(all)] ==
        IF n = 0 THEN inb ELSE sendToClient(Replay[n - 1], rs, c, SpawnAgentMsg(all[n]))
      agentIds == [i \in 1..Len(all) |-> all[i].id]
      afterSync == sendToClient(Replay[Len(all)], rs, c, SyncCompleteMsg(agentIds))
  IN sendToClient(afterSync, rs, c, buildUserStatsPayload(ags))

\* mutant: the socket is synced but never added to connectedClients
Connection_unregistered(c) ==
  /\ connCount < MaxConnects
  /\ readyState[c] = "CLOSED"
  /\ c \notin connectedClients
  /\ readyState' = [readyState EXCEPT ![c] = "OPEN"]
  /\ LET fresh == [inbox EXCEPT ![c] = <<>>]
         rs == [readyState EXCEPT ![c] = "OPEN"]
     IN inbox' = syncAgentsToClient(fresh, rs, c, agents, agentOrder)
  /\ connAt' = [connAt EXCEPT ![c] = Len(eventLog)]
  /\ snapAt' = [snapAt EXCEPT ![c] = agentOrder]
  /\ connCount' = connCount + 1
  /\ UNCHANGED <<agents, agentOrder, now, connectedClients, eventLog, lastCall,
                 opCount, statsTicks>>
  /\ UNCHANGED <<idleVars, nonRegVars>>

\* wss.on('connection'): a new socket, OPEN when the event is delivered
Connection(c) ==
  /\ connCount < MaxConnects
  /\ readyState[c] = "CLOSED"
  /\ c \notin connectedClients
  /\ readyState' = [readyState EXCEPT ![c] = "OPEN"]
  /\ connectedClients' = connectedClients \cup {c}
  /\ LET fresh == [inbox EXCEPT ![c] = <<>>]
         rs == [readyState EXCEPT ![c] = "OPEN"]
     IN inbox' = syncAgentsToClient(fresh, rs, c, agents, agentOrder)
  /\ connAt' = [connAt EXCEPT ![c] = Len(eventLog)]
  /\ snapAt' = [snapAt EXCEPT ![c] = agentOrder]
  /\ connCount' = connCount + 1
  /\ UNCHANGED <<agents, agentOrder, now, eventLog, lastCall, opCount, statsTicks>>
  /\ UNCHANGED <<idleVars, nonRegVars>>

\* the peer starts closing: the socket leaves OPEN before 'close' is emitted
SocketClosing(c) ==
  /\ readyState[c] = "OPEN"
  /\ readyState' = [readyState EXCEPT ![c] = "CLOSING"]
  /\ UNCHANGED <<agents, agentOrder, now, connectedClients, inbox, eventLog, connAt,
                 snapAt, lastCall, opCount, connCount, statsTicks>>
  /\ UNCHANGED <<idleVars, nonRegVars>>

\* ws.on('close')
CloseEvent(c) ==
  /\ readyState[c] = "CLOSING"
  /\ connectedClients' = connectedClients \ {c}
  /\ readyState' = [readyState EXCEPT ![c] = "CLOSED"]
  /\ UNCHANGED <<agents, agentOrder, now, inbox, eventLog, connAt, snapAt, lastCall,
                 opCount, connCount, statsTicks>>
  /\ UNCHANGED <<idleVars, nonRegVars>>

\* ws.on('error'): the socket is already closing when the event is emitted
ErrorEvent(c) ==
  /\ c \in connectedClients
  /\ readyState[c] = "CLOSING"
  /\ connectedClients' = connectedClients \ {c}
  /\ UNCHANGED <<agents, agentOrder, now, readyState, inbox, eventLog, connAt, snapAt,
                 lastCall, opCount, connCount, statsTicks>>
  /\ UNCHANGED <<idleVars, nonRegVars>>

\* from now on client.send throws on this socket while it still reads OPEN
SendBreaks(c) ==
  /\ c \in connectedClients
  /\ readyState[c] = "OPEN"
  /\ c \notin failingSends
  /\ failingSends' = failingSends \cup {c}
  /\ UNCHANGED <<regVars, monVars, syncVars, tokVars, recordEvents, readerVars,
                 pureVars, reapVars, viewers>>

\* the 5 s stats interval
UserStatsInterval ==
  /\ statsTicks < MaxStatsTicks
  /\ statsTicks' = statsTicks + 1
  /\ inbox' = IF connectedClients # {} THEN broadcastUserStats(inbox, agents) ELSE inbox
  /\ UNCHANGED <<agents, agentOrder, now, connectedClients, readyState, eventLog, connAt,
                 snapAt, lastCall, opCount, connCount>>
  /\ UNCHANGED <<idleVars, nonRegVars>>

Tick ==
  /\ now < MaxTime
  /\ now' = now + 1
  /\ UNCHANGED <<agents, agentOrder, connectedClients, readyState, inbox, eventLog,
                 connAt, snapAt, lastCall, opCount, connCount, statsTicks>>
  /\ UNCHANGED <<idleVars, nonRegVars>>

\* the timer set by scheduleIdleAction fires: the setTimeout callback
IdleTimerFires(id) ==
  /\ id \in pendingTimers
  /\ IF id \notin DOMAIN agents \/ agents[id].state # "IDLE"
     THEN /\ pendingTimers' = pendingTimers \ {id}
          /\ UNCHANGED <<idleActions, canCount, idleNotices>>
     ELSE LET activeCount == countActiveIdleActions(agents, idleActions)
              idleCount == countIdleAgents(agents)
          IN IF idleCount > 0 /\ 5 * activeCount >= 2 * idleCount
             THEN \* over capacity: scheduleIdleAction again, the timer is pending anew
                  UNCHANGED <<idleActions, pendingTimers, canCount, idleNotices>>
             ELSE /\ canCount < MaxCans
                  /\ idleActions' = MapSet(idleActions, id,
                                           Some([action |-> pickAction, assignedAt |-> now]))
                  /\ canCount' = canCount + 1
                  /\ pendingTimers' = pendingTimers \ {id}
                  /\ idleNotices' = IF recordEvents THEN idleNotices + 1 ELSE idleNotices
  /\ UNCHANGED <<agents, agentOrder, now, connectedClients, readyState, inbox, eventLog,
                 connAt, snapAt, lastCall, opCount, connCount, statsTicks>>
  /\ UNCHANGED nonRegVars

\* ------------------------------------------------- monitor: refresh guard
\* debouncedRefreshCycle up to its first await: the guard, then the cycle starts
enterCycle(folded) ==
  /\ isRefreshing' = TRUE
  /\ cyclePc' = "refresh"
  /\ cyclesStarted' = cyclesStarted + 1
  /\ reqDuring' = 0
  /\ coalesced' = folded

\* mutant: no isRefreshing check, every call starts a cycle
debouncedRefreshCycle_noGuard ==
  /\ enterCycle(0)
  /\ UNCHANGED refreshPending

debouncedRefreshCycle ==
  IF isRefreshing
  THEN /\ refreshPending' = TRUE
       /\ reqDuring' = reqDuring + 1
       /\ UNCHANGED <<isRefreshing, cyclePc, cyclesStarted, coalesced>>
  ELSE /\ enterCycle(0)
       /\ UNCHANGED refreshPending

\* mutant: the finally block clears both flags and does not run again
cycleFinally_noRerun ==
  /\ cyclesDone' = cyclesDone + 1
  /\ isRefreshing' = FALSE
  /\ refreshPending' = FALSE
  /\ cyclePc' = "idle"
  /\ reqDuring' = 0
  /\ UNCHANGED <<cyclesStarted, coalesced>>

\* the finally block of debouncedRefreshCycle, and the re-run it may start
cycleFinally ==
  /\ cyclesDone' = cyclesDone + 1
  /\ IF refreshPending
     THEN /\ refreshPending' = FALSE
          /\ enterCycle(reqDuring)
     ELSE /\ isRefreshing' = FALSE
          /\ cyclePc' = "idle"
          /\ reqDuring' = 0
          /\ UNCHANGED <<refreshPending, cyclesStarted, coalesced>>

DEBOUNCE_MS == 500

\* mutant: the pending timer is not cleared
FileEvent_noClear ==
  /\ fileEvents < MaxFileEvents
  /\ fileEvents' = fileEvents + 1
  /\ armedTimers' = armedTimers \cup {fileEvents + 1}
  /\ debounceTimer' = fileEvents + 1
  /\ timerLog' = Append(timerLog, [at |-> clock, fires |-> 0])
  /\ UNCHANGED <<isRefreshing, refreshPending, cyclePc, hasServerClient, requests,
                 cyclesStarted, cyclesDone, reqDuring, coalesced>>
  /\ UNCHANGED <<regVars, syncVars, tokVars, recordEvents, readerVars, pureVars, reapVars, failingSends, viewers>>

\* chokidar 'add' / 'change': debouncedRefresh clears the timer it holds and
\* sets a new one; the new handle is the number of the notification
FileEvent ==
  /\ fileEvents < MaxFileEvents
  /\ fileEvents' = fileEvents + 1
  /\ armedTimers' = (armedTimers \ {debounceTimer}) \cup {fileEvents + 1}
  /\ debounceTimer' = fileEvents + 1
  /\ timerLog' = Append(timerLog, [at |-> clock, fires |-> 0])
  /\ UNCHANGED <<isRefreshing, refreshPending, cyclePc, hasServerClient, requests,
                 cyclesStarted, cyclesDone, reqDuring, coalesced>>
  /\ UNCHANGED <<regVars, syncVars, tokVars, recordEvents, readerVars, pureVars, reapVars, failingSends, viewers>>

\* a debounce timer fires, DEBOUNCE_MS after it was set
DebounceFire ==
  /\ requests < MaxRequests
  /\ \E h \in armedTimers :
       /\ clock >= timerLog[h].at + DEBOUNCE_MS
       /\ armedTimers' = armedTimers \ {h}
       /\ timerLog' = [timerLog EXCEPT ![h].fires = @ + 1]
  /\ requests' = requests + 1
  /\ debouncedRefreshCycle
  /\ UNCHANGED <<debounceTimer, hasServerClient, fileEvents, cyclesDone>>
  /\ UNCHANGED <<regVars, syncVars, tokVars, recordEvents, readerVars, pureVars, reapVars, failingSends, viewers>>

\* half a debounce delay passes; a timer that is due fires first
DebounceTick ==
  /\ clock < MaxDebounceTicks * (DEBOUNCE_MS \div 2)
  /\ \A h \in armedTimers : clock < timerLog[h].at + DEBOUNCE_MS
  /\ clock' = clock + DEBOUNCE_MS \div 2
  /\ UNCHANGED <<regVars, monVars, syncVars, tokVars, recordEvents, readerVars,
                 pureVars, reapLog, failingSends, viewers>>

\* the 60 s fallback interval fires
PeriodicFire ==
  /\ requests < MaxRequests
  /\ requests' = requests + 1
  /\ debouncedRefreshCycle
  /\ UNCHANGED <<debounceTimer, armedTimers, timerLog, hasServerClient, fileEvents, cyclesDone>>
  /\ UNCHANGED <<regVars, syncVars, tokVars, recordEvents, readerVars, pureVars, reapVars, failingSends, viewers>>

\* await this.refresh() resumes: render, then syncToServer or the finally block
RefreshDone ==
  /\ cyclePc = "refresh"
  /\ IF hasServerClient
     THEN /\ cyclePc' = "sync"
          /\ UNCHANGED <<isRefreshing, refreshPending, cyclesStarted, cyclesDone,
                         reqDuring, coalesced>>
     ELSE cycleFinally
  /\ UNCHANGED <<debounceTimer, armedTimers, timerLog, hasServerClient, requests, fileEvents>>
  /\ UNCHANGED <<regVars, syncVars, tokVars, recordEvents, readerVars, pureVars, reapVars, failingSends, viewers>>

\* await this.syncToServer() resumes: the finally block
SyncDone ==
  /\ cyclePc = "sync"
  /\ cycleFinally
  /\ UNCHANGED <<debounceTimer, armedTimers, timerLog, hasServerClient, requests, fileEvents>>
  /\ UNCHANGED <<regVars, syncVars, tokVars, recordEvents, readerVars, pureVars, reapVars, failingSends, viewers>>

\* ------------------------------------------------- cli: the sync client
Tasks == {"sync"}
ApiKey == "k1"
IdOrder == <<"s1", "s2">>
IndexOf(id) == CHOOSE i \in 1..Len(IdOrder) : IdOrder[i] = id
SessionActivities == {"running_command", "done"}
Percentages == {10, 20}
ExternalIds == {"s1"}   \* the sessions another monitor also follows

IdleReq ==
  [op |-> "none", id |-> Null, act |-> Null, pct |-> 0, depth |-> 0, retry |-> 0,
   stage |-> "none", wire |-> "none", status |-> 0, bearer |-> 0, tok |-> 0, exp |-> 0]
IdleTask == [pc |-> "idle", toRemove |-> {}, last |-> 0, madeApiCall |-> FALSE]


\* server-client: CLI activity -> backend activity
mapActivityToBackend(activity) ==
  CASE activity = "reading" -> "reading"
    [] activity = "writing" -> "writing"
    [] activity = "running_command" -> "working"
    [] activity = "spawning_agent" -> "working"
    [] activity = "searching" -> "reading"
    [] activity = "waiting_input" -> "waiting"
    [] activity = "thinking" -> "thinking"
    [] activity = "done" -> "done"
    [] activity = "idle" -> "idle"
    [] OTHER -> "idle"

\* The client's state is threaded through the operators below as a record:
\* tk, tkExp, synced, lastAct, lastCtx are the ServerClient fields, rq the
\* request the task is suspended in, st the syncAll loop state, posted the
\* history of POST /agents.
ClientState(t) ==
  [tk |-> token, tkExp |-> tokenExpiresAt, synced |-> syncedAgents,
   lastAct |-> lastActivityMap, lastCtx |-> lastContextMap,
   rq |-> req[t], st |-> syncTask, posted |-> posted]

\* authenticate(): the cached token is reused while it has not expired
tokenCached(cs) == cs.tk # 0 /\ cs.tkExp > now

\* fetch(serverUrl + endpoint) with the bearer token
sendFetch(cs, r) ==
  [cs EXCEPT !.rq = [r EXCEPT !.stage = "fetch", !.wire = "out", !.status = 0,
                              !.bearer = cs.tk, !.tok = 0, !.exp = 0],
             !.posted = IF r.op = "create" THEN cs.posted \cup {r.act} ELSE cs.posted]

\* fetch(serverUrl + '/auth')
sendAuth(cs, r, stage) ==
  [cs EXCEPT !.rq = [r EXCEPT !.stage = stage, !.wire = "out", !.status = 0,
                              !.bearer = 0, !.tok = 0, !.exp = 0]]

\* request(endpoint, options, context, retryCount) up to its first fetch
request(cs, op, id, act, pct, depth, retry) ==
  LET r == [IdleReq EXCEPT !.op = op, !.id = id, !.act = act, !.pct = pct,
                           !.depth = depth, !.retry = retry]
  IN IF tokenCached(cs) THEN sendFetch(cs, r) ELSE sendAuth(cs, r, "auth")

\* updateAgent(session, depth) up to its first fetch; "returned" when it
\* returns without a request
updateAgentStart(cs, id, act, pct, depth) ==
  IF MapHas(cs.lastAct, id, act) /\ MapHas(cs.lastCtx, id, pct)
  THEN [cs EXCEPT !.rq = IdleReq]
  ELSE request(cs, "update", id, act, pct, depth, 0)

\* createAgent(session, depth) up to its first fetch
createAgentStart(cs, id, act, pct, depth) ==
  request(cs, "create", id, act, pct, depth, 0)

\* the session iterated after position n of the (live) sessions map
NextIndex(ses, n) ==
  IF \E i \in (n + 1)..Len(IdOrder) : IdOrder[i] \in DOMAIN ses
  THEN CHOOSE i \in (n + 1)..Len(IdOrder) :
         /\ IdOrder[i] \in DOMAIN ses
         /\ \A j \in (n + 1)..(i - 1) : IdOrder[j] \notin DOMAIN ses
  ELSE 0

\* mutant: the heartbeat is sent whenever an agent is synced
syncAllEnd_alwaysHeartbeat(cs) ==
  IF cs.synced # {}
  THEN request([cs EXCEPT !.st.pc = "heartbeat"], "heartbeat", Null, Null, 0, 0, 0)
  ELSE [cs EXCEPT !.st = IdleTask, !.rq = IdleReq]

\* syncAll: the end of a cycle, heartbeat if nothing was called
syncAllEnd(cs) ==
  IF ~cs.st.madeApiCall /\ cs.synced # {}
  THEN request([cs EXCEPT !.st.pc = "heartbeat"], "heartbeat", Null, Null, 0, 0, 0)
  ELSE [cs EXCEPT !.st = IdleTask, !.rq = IdleReq]

RECURSIVE syncAllUpsert(_, _)

\* mutant: a synced session is compared on its activity alone
syncAllUpsert_activityOnly(cs, ses) ==
  LET i == NextIndex(ses, cs.st.last)
  IN IF i = 0 THEN syncAllEnd(cs)
     ELSE LET id == IdOrder[i]
              activity == mapActivityToBackend(ses[id].activity)
              pct == ses[id].pct
              at == [cs EXCEPT !.st.pc = "upsert", !.st.last = i]
          IN IF id \in cs.synced
             THEN IF ~MapHas(cs.lastAct, id, activity)
                  THEN LET started == updateAgentStart(at, id, activity, pct, 0)
                       IN IF started.rq.op = "none"
                          THEN syncAllUpsert([started EXCEPT !.st.madeApiCall = TRUE], ses)
                          ELSE started
                  ELSE syncAllUpsert(at, ses)
             ELSE IF activity = "done"
                  THEN syncAllUpsert(at, ses)
                  ELSE createAgentStart(at, id, activity, pct, 0)

\* syncAll: the create-or-update loop from the session after st.last, run
\* until a call suspends or the loop ends
syncAllUpsert(cs, ses) ==
  LET i == NextIndex(ses, cs.st.last)
  IN IF i = 0 THEN syncAllEnd(cs)
     ELSE LET id == IdOrder[i]
              activity == mapActivityToBackend(ses[id].activity)
              pct == ses[id].pct
              at == [cs EXCEPT !.st.pc = "upsert", !.st.last = i]
          IN IF id \in cs.synced
             THEN IF ~MapHas(cs.lastAct, id, activity) \/ ~MapHas(cs.lastCtx, id, pct)
                  THEN LET started == updateAgentStart(at, id, activity, pct, 0)
                       IN IF started.rq.op = "none"
                          THEN syncAllUpsert([started EXCEPT !.st.madeApiCall = TRUE], ses)
                          ELSE started
                  ELSE syncAllUpsert(at, ses)
             ELSE IF activity = "done"
                  THEN syncAllUpsert(at, ses)
                  ELSE createAgentStart(at, id, activity, pct, 0)

\* syncAll: the removal loop over agentsToRemove
syncAllRemove(cs, ses) ==
  IF cs.st.toRemove = {}
  THEN syncAllUpsert([cs EXCEPT !.st.last = 0], ses)
  ELSE LET i == CHOOSE i \in 1..Len(IdOrder) :
                  /\ IdOrder[i] \in cs.st.toRemove
                  /\ \A j \in 1..(i - 1) : IdOrder[j] \notin cs.st.toRemove
           id == IdOrder[i]
       IN request([cs EXCEPT !.st.pc = "remove", !.st.toRemove = @ \ {id}],
                  "remove", id, Null, 0, 0, 0)

\* syncAll(sessions) up to its first suspension
\* mutant: synced agents whose session is gone are not removed
syncAll_noRemoval(cs, ses) ==
  syncAllRemove([cs EXCEPT !.st = [pc |-> "remove", toRemove |-> {},
                                   last |-> 0, madeApiCall |-> FALSE]], ses)

syncAll(cs, ses) ==
  syncAllRemove([cs EXCEPT !.st = [pc |-> "remove",
                                   toRemove |-> cs.synced \ DOMAIN ses,
                                   last |-> 0, madeApiCall |-> FALSE]], ses)

\* the awaited createAgent / updateAgent / removeAgent / heartbeat returned:
\* the caller resumes
returned(cs, t, ses) ==
  IF t = "sync"
  THEN CASE cs.st.pc = "remove" -> syncAllRemove([cs EXCEPT !.st.madeApiCall = TRUE], ses)
         [] cs.st.pc = "upsert" -> syncAllUpsert([cs EXCEPT !.st.madeApiCall = TRUE], ses)
         [] OTHER -> [cs EXCEPT !.st = IdleTask, !.rq = IdleReq]
  ELSE [cs EXCEPT !.rq = IdleReq]

\* mutant: the not-found recovery re-creates the agent whatever its activity
updateAgentNotFound_alwaysCreate(cs, t, ses) ==
  LET r == cs.rq
      cleared == [cs EXCEPT !.synced = @ \ {r.id},
                            !.lastAct = MapDel(@, r.id),
                            !.lastCtx = MapDel(@, r.id)]
  IN createAgentStart(cleared, r.id, r.act, r.pct, r.depth + 1)

\* updateAgent: the not-found recovery
updateAgentNotFound(cs, t, ses) ==
  LET r == cs.rq
      cleared == [cs EXCEPT !.synced = @ \ {r.id},
                            !.lastAct = MapDel(@, r.id),
                            !.lastCtx = MapDel(@, r.id)]
  IN IF r.act = "done"
     THEN returned(cleared, t, ses)
     ELSE createAgentStart(cleared, r.id, r.act, r.pct, r.depth + 1)

\* mutant: the conflict is taken for a success and the create is repeated
createAgentConflict_createAgain(cs, t, ses) ==
  LET r == cs.rq
  IN createAgentStart([cs EXCEPT !.synced = @ \cup {r.id},
                                 !.lastAct = MapSet(@, r.id, r.act),
                                 !.lastCtx = MapSet(@, r.id, r.pct)],
                      r.id, r.act, r.pct, r.depth + 1)

\* createAgent: the conflict recovery, mark synced and update instead
createAgentConflict(cs, t, ses) ==
  LET r == cs.rq
      started == updateAgentStart([cs EXCEPT !.synced = @ \cup {r.id}],
                                  r.id, r.act, r.pct, r.depth + 1)
  IN IF started.rq.op = "none" THEN returned(started, t, ses) ELSE started

\* mutant: the recoveries do not look at the recursion depth
resumed_noDepthLimit(cs, t, result, ses) ==
  LET r == cs.rq
  IN CASE r.op = "create" ->
            IF result = "data"
            THEN returned([cs EXCEPT !.synced = @ \cup {r.id},
                                     !.lastAct = MapSet(@, r.id, r.act),
                                     !.lastCtx = MapSet(@, r.id, r.pct)], t, ses)
            ELSE IF result = "conflict"
            THEN createAgentConflict(cs, t, ses)
            ELSE returned(cs, t, ses)
       [] r.op = "update" ->
            IF result = "data"
            THEN returned([cs EXCEPT !.lastAct = MapSet(@, r.id, r.act),
                                     !.lastCtx = MapSet(@, r.id, r.pct)], t, ses)
            ELSE IF result = "notFound"
            THEN updateAgentNotFound(cs, t, ses)
            ELSE returned(cs, t, ses)
       [] r.op = "remove" ->
            IF result \in {"data", "notFound"}
            THEN returned([cs EXCEPT !.synced = @ \ {r.id},
                                     !.lastAct = MapDel(@, r.id),
                                     !.lastCtx = MapDel(@, r.id)], t, ses)
            ELSE returned(cs, t, ses)
       [] OTHER -> returned(cs, t, ses)

\* the rest of createAgent / updateAgent / removeAgent / heartbeat once
\* request() has returned result: "data" | "notFound" | "conflict" | "null"
resumed(cs, t, result, ses) ==
  LET r == cs.rq
  IN CASE r.op = "create" ->
            IF result = "data"
            THEN returned([cs EXCEPT !.synced = @ \cup {r.id},
                                     !.lastAct = MapSet(@, r.id, r.act),
                                     !.lastCtx = MapSet(@, r.id, r.pct)], t, ses)
            ELSE IF result = "conflict" /\ r.depth < MaxDepth
            THEN createAgentConflict(cs, t, ses)
            ELSE returned(cs, t, ses)
       [] r.op = "update" ->
            IF result = "data"
            THEN returned([cs EXCEPT !.lastAct = MapSet(@, r.id, r.act),
                                     !.lastCtx = MapSet(@, r.id, r.pct)], t, ses)
            ELSE IF result = "notFound" /\ r.depth < MaxDepth
            THEN updateAgentNotFound(cs, t, ses)
            ELSE returned(cs, t, ses)
       [] r.op = "remove" ->
            IF result \in {"data", "notFound"}
            THEN returned([cs EXCEPT !.synced = @ \ {r.id},
                                     !.lastAct = MapDel(@, r.id),
                                     !.lastCtx = MapDel(@, r.id)], t, ses)
            ELSE returned(cs, t, ses)
       [] OTHER -> returned(cs, t, ses)

\* mutant: a 404 is not told apart from any other failure
resultOfStatus_noNotFound(status) ==
  CASE status = 409 -> "conflict"
    [] OTHER -> "null"

\* request(): what a response that is not ok turns into
resultOfStatus(status) ==
  CASE status = 404 -> "notFound"
    [] status = 409 -> "conflict"
    [] OTHER -> "null"

\* mutant: a 401 is retried whatever the retry count
received_retryForever(cs, t, ses) ==
  LET r == cs.rq
      withToken == [cs EXCEPT !.tk = r.tok, !.tkExp = r.exp]
  IN CASE r.stage = "auth" ->
            IF r.status = 200 THEN sendFetch(withToken, r)
            ELSE resumed(cs, t, "null", ses)
       [] r.stage = "fetch" ->
            IF r.status \in {200, 201} THEN resumed(cs, t, "data", ses)
            ELSE IF r.status = 401
            THEN sendAuth([cs EXCEPT !.tk = 0, !.tkExp = 0], [r EXCEPT !.status = 401], "reauth")
            ELSE resumed(cs, t, resultOfStatus(r.status), ses)
       [] r.stage = "reauth" ->
            IF r.status = 200
            THEN request(withToken, r.op, r.id, r.act, r.pct, r.depth, r.retry + 1)
            ELSE resumed(cs, t, "null", ses)

\* request() and authenticate() resumed by the response to their fetch
received(cs, t, ses) ==
  LET r == cs.rq
      withToken == [cs EXCEPT !.tk = r.tok, !.tkExp = r.exp]
  IN CASE r.stage = "auth" ->
            IF r.status = 200 THEN sendFetch(withToken, r)
            ELSE resumed(cs, t, "null", ses)
       [] r.stage = "fetch" ->
            IF r.status \in {200, 201} THEN resumed(cs, t, "data", ses)
            ELSE IF r.status = 401 /\ r.retry < MaxRetry
            THEN sendAuth([cs EXCEPT !.tk = 0, !.tkExp = 0], [r EXCEPT !.status = 401], "reauth")
            ELSE resumed(cs, t, resultOfStatus(r.status), ses)
       [] r.stage = "reauth" ->
            IF r.status = 200
            THEN request(withToken, r.op, r.id, r.act, r.pct, r.depth, r.retry + 1)
            ELSE resumed(cs, t, "null", ses)

\* writes a threaded client state back to the variables
Commit(cs, t) ==
  /\ token' = cs.tk
  /\ tokenExpiresAt' = cs.tkExp
  /\ syncedAgents' = cs.synced
  /\ lastActivityMap' = cs.lastAct
  /\ lastContextMap' = cs.lastCtx
  /\ syncTask' = cs.st
  /\ req' = [req EXCEPT ![t] = cs.rq]
  /\ posted' = cs.posted

\* history of one syncAll: the agent calls it began and its heartbeat calls
NoCycleCalls == [ops |-> {}, beats |-> 0, synced0 |-> {}, failed |-> FALSE]

\* the response ends its call without data: request() returns data: null
callFailed(r) ==
  /\ r.wire = "in"
  /\ \/ r.stage \in {"auth", "reauth"} /\ r.status # 200
     \/ /\ r.stage = "fetch"
        /\ r.status \notin {200, 201}
        /\ ~(r.status = 401 /\ r.retry < MaxRetry)

\* a call begins when the task is suspended in a request of another
\* (operation, agent, depth) than the one it was suspended in before; synced0
\* is the synced set the cycle began with, failed whether one of its calls
\* ended without data
recordCycleCalls(newCycle, old, new) ==
  cycleCalls' =
    IF ~recordEvents THEN cycleCalls
    ELSE LET start == IF newCycle THEN [NoCycleCalls EXCEPT !.synced0 = syncedAgents]
                      ELSE cycleCalls
             base == [start EXCEPT !.failed = @ \/ callFailed(old)]
             began == /\ new.op # "none"
                      /\ \/ newCycle
                         \/ <<new.op, new.id, new.depth>> # <<old.op, old.id, old.depth>>
         IN IF ~began THEN base
            ELSE IF new.op = "heartbeat" THEN [base EXCEPT !.beats = @ + 1]
            ELSE [base EXCEPT !.ops = @ \cup {new.op}]

\* the sets of session maps a refresh can build
SessionRecords == [activity : SessionActivities, pct : Percentages]
SessionMaps == UNION {[ids -> SessionRecords] : ids \in SUBSET AgentIds}

\* one guarded cycle (or the initial scan of start()): refresh() rebuilds the
\* session map, then syncToServer() calls syncAll on it
RefreshAndSyncOf(maps, maxCycles) ==
  /\ UNCHANGED lastHandled
  /\ cycles < maxCycles
  /\ syncTask.pc = "idle"
  /\ cycles' = cycles + 1
  /\ \E ses \in maps :
       /\ sessions' = ses
       /\ Commit(syncAll(ClientState("sync"), ses), "sync")
  /\ recordCycleCalls(TRUE, IdleReq, req'["sync"])
  /\ UNCHANGED <<extOps, netErrors>>
  /\ UNCHANGED <<regVars, monVars, tokVars, recordEvents, readerVars, pureVars, reapVars, failingSends, viewers>>

RefreshAndSync == RefreshAndSyncOf(SessionMaps, MaxCycles)

\* a response reaches the client: the suspended call chain resumes
ClientReceive(t) ==
  /\ req[t].wire = "in"
  /\ lastHandled' = req[t]
  /\ Commit(received(ClientState(t), t, sessions), t)
  /\ recordCycleCalls(FALSE, req[t], req'[t])
  /\ UNCHANGED <<sessions, cycles, extOps, netErrors>>
  /\ UNCHANGED <<regVars, monVars, tokVars, recordEvents, readerVars, pureVars, reapVars, failingSends, viewers>>

\* the fetch fails (connection refused, reset, 10 s timeout) before the
\* server has handled the request
NetworkError(t) ==
  /\ UNCHANGED lastHandled
  /\ netErrors < MaxNetErrors
  /\ req[t].wire = "out"
  /\ netErrors' = netErrors + 1
  /\ req' = [req EXCEPT ![t].wire = "in", ![t].status = 0]
  /\ UNCHANGED <<sessions, token, tokenExpiresAt, syncedAgents, lastActivityMap,
                 lastContextMap, syncTask, posted, cycles, cycleCalls, extOps>>
  /\ UNCHANGED <<regVars, monVars, tokVars, recordEvents, readerVars, pureVars, reapVars, failingSends, viewers>>

\* --------------------------------------------- backend: tokens and routes
isExpired(tok, t) == t > tok.expiresAt

\* token-manager generateToken: a fresh token string for the user
\* history of the last token-manager call: its argument, the time and whether
\* it returned a token (or true)
recordTokenCall(op, tokenString, result) ==
  lastTokenCall' = IF recordEvents
                   THEN [op |-> op, token |-> tokenString, at |-> now, result |-> result]
                   ELSE lastTokenCall

\* mutant: the user's earlier tokens are dropped when a new one is issued
generateToken_replacing(user) ==
  /\ tokenCounter' = tokenCounter + 1
  /\ tokens' = [t \in {x \in DOMAIN tokens : tokens[x].user # user} \cup {tokenCounter + 1} |->
                  IF t = tokenCounter + 1
                  THEN [user |-> user, createdAt |-> now,
                        expiresAt |-> now + TokenLifetime, lastActivity |-> now]
                  ELSE tokens[t]]
  /\ recordTokenCall("generate", tokenCounter + 1, TRUE)

generateToken(user) ==
  /\ tokenCounter' = tokenCounter + 1
  /\ tokens' = MapSet(tokens, tokenCounter + 1,
                      [user |-> user, createdAt |-> now,
                       expiresAt |-> now + TokenLifetime, lastActivity |-> now])
  /\ recordTokenCall("generate", tokenCounter + 1, TRUE)

\* what validateToken returns: TRUE for a token object, FALSE for null
tokenIsValid(tokenString) ==
  tokenString \in DOMAIN tokens /\ ~isExpired(tokens[tokenString], now)

\* token-manager validateToken: drops an expired token, touches a valid one
\* mutant: an expired token is refused but stays in the store
validateToken_keepExpired(tokenString) ==
  /\ tokens' = IF tokenString \notin DOMAIN tokens THEN tokens
               ELSE IF isExpired(tokens[tokenString], now) THEN tokens
               ELSE [tokens EXCEPT ![tokenString].lastActivity = now]
  /\ UNCHANGED tokenCounter
  /\ recordTokenCall("validate", tokenString, tokenIsValid(tokenString))

validateToken(tokenString) ==
  /\ tokens' = IF tokenString \notin DOMAIN tokens THEN tokens
               ELSE IF isExpired(tokens[tokenString], now) THEN MapDel(tokens, tokenString)
               ELSE [tokens EXCEPT ![tokenString].lastActivity = now]
  /\ UNCHANGED tokenCounter
  /\ recordTokenCall("validate", tokenString, tokenIsValid(tokenString))

\* token-manager revokeToken
revokeToken(tokenString) ==
  /\ tokens' = MapDel(tokens, tokenString)
  /\ UNCHANGED tokenCounter
  /\ recordTokenCall("revoke", tokenString, tokenString \in DOMAIN tokens)

\* token-manager cleanupExpiredTokens: the periodic sweep
cleanupExpiredTokens ==
  /\ tokens' = [t \in {x \in DOMAIN tokens : ~isExpired(tokens[x], now)} |-> tokens[t]]
  /\ UNCHANGED tokenCounter
  /\ recordTokenCall("cleanup", 0, TRUE)

\* mutant: a touch also slides the expiry
touchToken_slidingExpiry(tokenString) ==
  /\ tokens' = IF tokenIsValid(tokenString)
               THEN [tokens EXCEPT ![tokenString].lastActivity = now,
                                   ![tokenString].expiresAt = now + TokenLifetime]
               ELSE tokens
  /\ UNCHANGED tokenCounter
  /\ recordTokenCall("touch", tokenString, tokenIsValid(tokenString))

\* token-manager touchToken
touchToken(tokenString) ==
  /\ tokens' = IF tokenIsValid(tokenString)
               THEN [tokens EXCEPT ![tokenString].lastActivity = now]
               ELSE tokens
  /\ UNCHANGED tokenCounter
  /\ recordTokenCall("touch", tokenString, tokenIsValid(tokenString))

\* ---------------------------------------------- token-manager callers
TokenUsers == {"k1", "k2"}
TokenStrings == 0..MaxTokens      \* 0: a string that was never issued

\* POST /auth with a valid api key
IssueToken(user) ==
  /\ tokenCounter < MaxTokens
  /\ generateToken(user)
  /\ UNCHANGED <<regVars, monVars, syncVars, recordEvents, readerVars, pureVars, reapVars, failingSends, viewers>>

\* authMiddleware on a request carrying Bearer tokenString
AuthMiddleware(tokenString) ==
  /\ validateToken(tokenString)
  /\ UNCHANGED <<regVars, monVars, syncVars, recordEvents, readerVars, pureVars, reapVars, failingSends, viewers>>

TouchToken(tokenString) ==
  /\ touchToken(tokenString)
  /\ UNCHANGED <<regVars, monVars, syncVars, recordEvents, readerVars, pureVars, reapVars, failingSends, viewers>>

RevokeToken(tokenString) ==
  /\ revokeToken(tokenString)
  /\ UNCHANGED <<regVars, monVars, syncVars, recordEvents, readerVars, pureVars, reapVars, failingSends, viewers>>

\* the cleanup interval of index.ts fires
CleanupInterval ==
  /\ cleanupExpiredTokens
  /\ UNCHANGED <<regVars, monVars, syncVars, recordEvents, readerVars, pureVars, reapVars, failingSends, viewers>>

\* Date.now() advances
TokenTick ==
  /\ now < MaxTokenTime
  /\ now' = now + 1
  /\ UNCHANGED <<agents, agentOrder, connectedClients, readyState, inbox, eventLog,
                 connAt, snapAt, lastCall, opCount, connCount, statsTicks>>
  /\ UNCHANGED <<idleVars, nonRegVars>>

\* ------------------------------------------- index.ts: periodic agent cleanup
\* The clock of the token store counts token lifetimes; the inactivity
\* timeout (config.inactivityTimeoutSeconds, 60 s by default) and the done
\* timeouts (5 and 15 min) are shorter than one lifetime (86400 s), so an age
\* is compared in half ticks.
InactivityTimeoutHalves == 1
DoneTimeoutHalves == 1

\* the tokens getInactiveUserKeys looks at: `if (isExpired(token, now)) continue`
unexpiredTokens(toks, t) == {x \in DOMAIN toks : ~isExpired(toks[x], t)}

\* userLastActivity.get(userKey): the latest lastActivity over the tokens in ts
latestActivity(toks, ts, key) ==
  LET mine == {x \in ts : toks[x].user = key}
  IN CHOOSE a \in {toks[x].lastActivity : x \in mine} :
       \A x \in mine : toks[x].lastActivity <= a

\* the Map's key order: the order in which the users' first tokens were stored
RECURSIVE keysInOrder(_, _, _)
keysInOrder(toks, ts, keys) ==
  IF keys = {} THEN <<>>
  ELSE LET first(k) == CHOOSE x \in ts : toks[x].user = k /\
                         \A y \in ts : toks[y].user = k => x <= y
           k == CHOOSE x \in keys : \A y \in keys : first(x) <= first(y)
       IN <<k>> \o keysInOrder(toks, ts, keys \ {k})

\* token-manager getInactiveUserKeys(timeoutSeconds) at time t
getInactiveUserKeys(toks, t, timeoutHalves) ==
  IF timeoutHalves <= 0 THEN <<>>
  ELSE LET ts == unexpiredTokens(toks, t)
           users == {toks[x].user : x \in ts}
       IN keysInOrder(toks, ts,
            {k \in users : 2 * (t - latestActivity(toks, ts, k)) > timeoutHalves})

\* the registry and its listeners' state, threaded through a run of removals
RegistryState ==
  [ags |-> agents, order |-> agentOrder, inb |-> inbox, acts |-> idleActions,
   timers |-> pendingTimers, notices |-> idleNotices, log |-> eventLog]

\* removeAgent(id, ownerKey) for each id of a sequence, listeners notified
RECURSIVE removeEach(_, _)
removeEach(st, ids) ==
  IF ids = <<>> THEN st
  ELSE LET id == Head(ids)
       IN IF id \notin DOMAIN st.ags THEN removeEach(st, Tail(ids))
          ELSE LET agent == st.ags[id]
                   ags == MapDel(st.ags, id)
                   h == handleAgentChange("remove", agent, MapDel(st.acts, id), st.timers)
               IN removeEach(
                    [ags |-> ags, order |-> SeqRemove(st.order, id),
                     inb |-> onAgentChange(st.inb, "remove", agent, ags),
                     acts |-> h.acts, timers |-> h.timers,
                     notices |-> IF recordEvents THEN st.notices + h.notices
                                 ELSE st.notices,
                     log |-> IF recordEvents
                             THEN Append(st.log, [type |-> "remove", id |-> id,
                                                  state |-> agent.state])
                             ELSE st.log],
                    Tail(ids))

\* agent-manager removeAgentsByOwner(key): every agent of the owner is removed
removeAgentsByOwner(st, key) ==
  removeEach(st, SelectSeq(st.order, LAMBDA i : st.ags[i].ownerKey = key))

\* index.ts removeInactiveOwnerAgents: for (const key of inactiveKeys)
RECURSIVE removeOwners(_, _)
removeOwners(st, keys) ==
  IF keys = <<>> THEN st
  ELSE removeOwners(removeAgentsByOwner(st, Head(keys)), Tail(keys))

removeInactiveOwnerAgents(st, toks, t) ==
  IF InactivityTimeoutHalves <= 0 THEN st
  ELSE removeOwners(st, getInactiveUserKeys(toks, t, InactivityTimeoutHalves))

\* index.ts reapDoneAgents: done agents not updated for longer than the timeout
reapDoneAgents(st, t) ==
  removeEach(st, SelectSeq(st.order,
                   LAMBDA i : st.ags[i].activity = "done" /\
                              2 * (t - st.ags[i].updatedAt) > DoneTimeoutHalves))

\* the agentCleanupInterval callback; pureCall keeps what getInactiveUserKeys
\* was asked and pureResult what it returned
AgentCleanupInterval ==
  /\ LET keys == getInactiveUserKeys(tokens, now, InactivityTimeoutHalves)
         st == reapDoneAgents(removeInactiveOwnerAgents(RegistryState, tokens, now), now)
     IN /\ agents' = st.ags
        /\ agentOrder' = st.order
        /\ inbox' = st.inb
        /\ idleActions' = st.acts
        /\ pendingTimers' = st.timers
        /\ idleNotices' = st.notices
        /\ eventLog' = st.log
        /\ pureCall' = [fn |-> "getInactiveUserKeys", at |-> now, tokens |-> tokens]
        /\ pureResult' = SeqToSet(keys)
  /\ UNCHANGED <<now, connectedClients, readyState, connAt, snapAt, lastCall, opCount,
                 connCount, statsTicks, canCount>>
  /\ UNCHANGED <<monVars, syncVars, tokVars, recordEvents, readerVars, reapVars, failingSends, viewers>>

\* the cleanup interval (10 s) has run at the current clock value
cleanupRanNow == pureCall.fn = "getInactiveUserKeys" /\ pureCall.at = now

\* an authenticated POST /agents: authMiddleware touches the token, the route
\* creates the agent for the token's user
AuthenticatedCreate(ts) ==
  /\ opCount < MaxCleanupOps
  /\ now + 1 < MaxCleanupTime
  /\ tokenIsValid(ts)
  /\ validateToken(ts)
  /\ \E id \in AgentIds, dn \in DisplayNames, a \in BroadcastActivities :
       createAgent(id, dn, a, tokens[ts].user)
  /\ opCount' = opCount + 1
  /\ UNCHANGED <<now, connectedClients, readyState, connAt, snapAt, connCount, statsTicks>>
  /\ UNCHANGED <<monVars, syncVars, recordEvents, readerVars, pureVars, reapVars, failingSends, viewers>>

\* the owners' requests stop one tick before the clock's bound
OwnerLogin(user) ==
  now + 1 < MaxCleanupTime /\ tokenCounter < MaxCleanupTokens /\ IssueToken(user)
OwnerRequest(ts) == now + 1 < MaxCleanupTime /\ tokenIsValid(ts) /\ AuthMiddleware(ts)

\* Date.now() advances by a token lifetime; the 10 s interval has run before
CleanupTick ==
  /\ now < MaxCleanupTime
  /\ cleanupRanNow
  /\ now' = now + 1
  /\ UNCHANGED <<agents, agentOrder, connectedClients, readyState, inbox, eventLog,
                 connAt, snapAt, lastCall, opCount, connCount, statsTicks>>
  /\ UNCHANGED <<idleVars, nonRegVars>>

\* res.status(..).json(..) reaching the client
respond(t, status, tok, exp) ==
  req' = [req EXCEPT ![t].wire = "in", ![t].status = status, ![t].tok = tok, ![t].exp = exp]

\* POST /auth with the client's configured api key
PostAuth(t) ==
  /\ UNCHANGED lastHandled
  /\ req[t].wire = "out"
  /\ req[t].stage \in {"auth", "reauth"}
  /\ generateToken(ApiKey)
  /\ respond(t, 200, tokenCounter + 1, now + TokenLifetime)
  /\ UNCHANGED <<sessions, token, tokenExpiresAt, syncedAgents, lastActivityMap,
                 lastContextMap, syncTask, posted, cycles, cycleCalls, extOps, netErrors>>
  /\ UNCHANGED <<regVars, monVars, recordEvents, readerVars, pureVars, reapVars, failingSends, viewers>>

\* POST /agents behind authMiddleware
postAgents(t, user) ==
  /\ createAgent(req[t].id, "n1", req[t].act, user)
  /\ respond(t, IF req[t].id \in DOMAIN agents THEN 409 ELSE 201, 0, 0)

\* PUT /agents/:id behind authMiddleware
putAgent(t, user) ==
  IF req[t].id \notin DOMAIN agents
  THEN /\ respond(t, 404, 0, 0)
       /\ UNCHANGED <<agents, agentOrder, inbox, eventLog, lastCall, idleVars>>
  ELSE IF agents[req[t].id].ownerKey # user
  THEN /\ respond(t, 403, 0, 0)
       /\ UNCHANGED <<agents, agentOrder, inbox, eventLog, lastCall, idleVars>>
  ELSE /\ updateAgentActivity(req[t].id, req[t].act, user)
       /\ respond(t, 200, 0, 0)

\* DELETE /agents/:id behind authMiddleware
deleteAgent(t, user) ==
  IF req[t].id \notin DOMAIN agents
  THEN /\ respond(t, 404, 0, 0)
       /\ UNCHANGED <<agents, agentOrder, inbox, eventLog, lastCall, idleVars>>
  ELSE IF agents[req[t].id].ownerKey # user
  THEN /\ respond(t, 403, 0, 0)
       /\ UNCHANGED <<agents, agentOrder, inbox, eventLog, lastCall, idleVars>>
  ELSE /\ removeAgent(req[t].id, user)
       /\ respond(t, 200, 0, 0)

\* POST /heartbeat behind authMiddleware: answers ok, touches nothing else
postHeartbeat(t, user) ==
  /\ respond(t, 200, 0, 0)
  /\ UNCHANGED <<agents, agentOrder, inbox, eventLog, lastCall, idleVars>>

\* an authenticated request is handled: authMiddleware, then the route
AuthenticatedRoute(t) ==
  /\ UNCHANGED lastHandled
  /\ req[t].wire = "out"
  /\ req[t].stage = "fetch"
  /\ validateToken(req[t].bearer)
  /\ IF ~tokenIsValid(req[t].bearer)
     THEN /\ respond(t, 401, 0, 0)
          /\ UNCHANGED <<agents, agentOrder, inbox, eventLog, lastCall, idleVars>>
     ELSE LET user == tokens[req[t].bearer].user
          IN CASE req[t].op = "create" -> postAgents(t, user)
               [] req[t].op = "update" -> putAgent(t, user)
               [] req[t].op = "remove" -> deleteAgent(t, user)
               [] OTHER -> postHeartbeat(t, user)
  /\ UNCHANGED <<now, connectedClients, readyState, connAt, snapAt, opCount, connCount,
                 statsTicks>>
  /\ UNCHANGED <<sessions, token, tokenExpiresAt, syncedAgents, lastActivityMap,
                 lastContextMap, syncTask, posted, cycles, cycleCalls, extOps, netErrors>>
  /\ UNCHANGED <<monVars, recordEvents, readerVars, pureVars, reapVars, failingSends, viewers>>

\* another monitor of the same user registers the same session first
ExternalCreate ==
  /\ UNCHANGED lastHandled
  /\ extOps < MaxExternalOps
  /\ extOps' = extOps + 1
  /\ \E id \in ExternalIds : createAgent(id, "n1", "thinking", ApiKey)
  /\ UNCHANGED <<now, connectedClients, readyState, connAt, snapAt, opCount, connCount,
                 statsTicks>>
  /\ UNCHANGED <<sessions, token, tokenExpiresAt, syncedAgents, lastActivityMap,
                 lastContextMap, syncTask, req, posted, cycles, cycleCalls, netErrors>>
  /\ UNCHANGED <<monVars, tokVars, recordEvents, readerVars, pureVars, reapVars, failingSends, viewers>>

\* the agent is removed behind the client's back: by another monitor of the
\* same user or by the backend's own cleanup
ExternalRemove ==
  /\ UNCHANGED lastHandled
  /\ extOps < MaxExternalOps
  /\ extOps' = extOps + 1
  /\ \E id \in DOMAIN agents \cap ExternalIds : removeAgent(id, agents[id].ownerKey)
  /\ UNCHANGED <<now, connectedClients, readyState, connAt, snapAt, opCount, connCount,
                 statsTicks>>
  /\ UNCHANGED <<sessions, token, tokenExpiresAt, syncedAgents, lastActivityMap,
                 lastContextMap, syncTask, req, posted, cycles, cycleCalls, netErrors>>
  /\ UNCHANGED <<monVars, tokVars, recordEvents, readerVars, pureVars, reapVars, failingSends, viewers>>

\* time passes on the machine running client and backend
SyncTick ==
  /\ now < MaxSyncTime
  /\ now' = now + 1
  /\ UNCHANGED <<agents, agentOrder, connectedClients, readyState, inbox, eventLog,
                 connAt, snapAt, lastCall, opCount, connCount, statsTicks>>
  /\ UNCHANGED <<idleVars, nonRegVars>>

\* ------------------------------------------- cli: the incremental reader
Files == {"f1"}
Digits == {"1", "2"}                 \* payloads of the records
Bytes == {"{", "}", "n"} \cup Digits  \* "n" stands for the newline byte
RawBytes == {"{", "n"}                \* what a torn write leaves behind

Min(a, b) == IF a < b THEN a ELSE b

\* a well-formed JSONL line carrying record d, newline included
LineOf(d) == <<"{", d, "}", "n">>

\* content.split('\n')
RECURSIVE splitLines(_, _)
splitLines(content, cur) ==
  IF content = <<>> THEN <<cur>>
  ELSE IF Head(content) = "n" THEN <<cur>> \o splitLines(Tail(content), <<>>)
  ELSE splitLines(Tail(content), Append(cur, Head(content)))

\* whether JSON.parse accepts the line
jsonValid(line) ==
  Len(line) = 3 /\ line[1] = "{" /\ line[2] \in Digits /\ line[3] = "}"

RECURSIVE parseLines(_)
parseLines(lines) ==
  IF lines = <<>> THEN <<>>
  ELSE LET line == Head(lines)
       IN IF Len(line) = 0 THEN parseLines(Tail(lines))
          ELSE IF jsonValid(line) THEN <<line[2]>> \o parseLines(Tail(lines))
          ELSE parseLines(Tail(lines))

\* parseJsonlContent: blank lines and lines that do not parse are skipped
parseJsonlContent(content) == parseLines(splitLines(content, <<>>))

\* readFromPosition: the bytes start .. end - 1 that the file holds now
readFromPosition(startPosition, endPosition) ==
  SubSeq(fileContent, startPosition + 1, Min(endPosition, Len(fileContent)))

\* Array.prototype.slice(-n): the last n elements, all of them when n is 0
sliceLast(arr, n) ==
  IF n = 0 \/ Len(arr) <= n THEN arr ELSE SubSeq(arr, Len(arr) - n + 1, Len(arr))

\* filePositions.get(filePath) || 0
getPosition(f) == IF f \in DOMAIN filePositions THEN filePositions[f] ELSE 0

\* messageCache.get(filePath) || []
getCached(f) == IF f \in DOMAIN messageCache THEN messageCache[f] ELSE <<>>

\* mutant: the cache is never trimmed
updateCache_noTrim(f, newMessages) ==
  messageCache' = MapSet(messageCache, f, getCached(f) \o newMessages)

\* updateCache: append, keep the most recent maxCachedMessages
updateCache(f, newMessages) ==
  messageCache' = MapSet(messageCache, f,
                         sliceLast(getCached(f) \o newMessages, MaxCachedMessages))

IdleCall == [file |-> Null, currentSize |-> 0, lastPosition |-> 0,
             didReset |-> FALSE, snapshot |-> <<>>]

\* readNewLines(filePath) is called (by getRecentMessages, one file at a time)
ReadNewLines(f) ==
  /\ UNCHANGED rawWrites
  /\ readPc = "idle"
  /\ readPc' = "stat"
  /\ readCall' = [IdleCall EXCEPT !.file = f]
  /\ UNCHANGED <<fileContent, fileExists, filePositions, messageCache, readResult,
                 syncedContent, rewrites>>
  /\ UNCHANGED <<regVars, monVars, syncVars, tokVars, recordEvents, pureVars, reapVars, failingSends, viewers>>

\* mutant: the offset is reset but the cached records are kept
resetFile_keepCache(f) ==
  /\ filePositions' = MapSet(filePositions, f, 0)
  /\ UNCHANGED messageCache
  /\ syncedContent' = <<>>

\* readNewLines on a shrunken file: offset to 0, cache dropped
resetFile(f) ==
  /\ filePositions' = MapSet(filePositions, f, 0)
  /\ messageCache' = MapDel(messageCache, f)
  /\ syncedContent' = <<>>

\* mutant: a file that has not grown is read again from the start
statResolved_rereadUnchanged(f) ==
  LET currentSize == Len(fileContent)
      lastPosition == getPosition(f)
  IN IF currentSize <= lastPosition /\ f \in DOMAIN filePositions
     THEN /\ resetFile(f)
          /\ readPc' = "read"
          /\ readCall' = [readCall EXCEPT !.didReset = TRUE, !.currentSize = currentSize,
                                          !.lastPosition = 0, !.snapshot = fileContent]
          /\ UNCHANGED readResult
     ELSE /\ readPc' = "read"
          /\ readCall' = [readCall EXCEPT !.currentSize = currentSize,
                                          !.lastPosition = lastPosition,
                                          !.snapshot = fileContent]
          /\ UNCHANGED <<filePositions, messageCache, readResult, syncedContent>>

\* readNewLines after `await stat`: no growth returns [], a shrink resets
\* and calls readNewLines again, growth goes on to read the new bytes
statResolved(f) ==
  LET currentSize == Len(fileContent)
      lastPosition == getPosition(f)
  IN IF currentSize <= lastPosition
     THEN IF currentSize < lastPosition
          THEN /\ resetFile(f)
               /\ readPc' = "stat"
               /\ readCall' = [readCall EXCEPT !.didReset = TRUE]
               /\ UNCHANGED readResult
          ELSE /\ readPc' = "idle"
               /\ readResult' = Some(<<>>)
               /\ UNCHANGED <<filePositions, messageCache, readCall, syncedContent>>
     ELSE /\ readPc' = "read"
          /\ readCall' = [readCall EXCEPT !.currentSize = currentSize,
                                          !.lastPosition = lastPosition,
                                          !.snapshot = fileContent]
          /\ UNCHANGED <<filePositions, messageCache, readResult, syncedContent>>

\* `await stat(filePath)` settles: it throws when the file is missing
StatDone ==
  /\ UNCHANGED rawWrites
  /\ readPc = "stat"
  /\ IF ~fileExists
     THEN /\ readPc' = "idle"
          /\ readResult' = Some(<<>>)
          /\ UNCHANGED <<filePositions, messageCache, readCall, syncedContent>>
     ELSE statResolved(readCall.file)
  /\ UNCHANGED <<fileContent, fileExists, rewrites>>
  /\ UNCHANGED <<regVars, monVars, syncVars, tokVars, recordEvents, pureVars, reapVars, failingSends, viewers>>

\* `await readFromPosition` settles: offset, parse, cache, return
ReadDone ==
  /\ UNCHANGED rawWrites
  /\ readPc = "read"
  /\ LET f == readCall.file
         newContent == readFromPosition(readCall.lastPosition, readCall.currentSize)
         newMessages == parseJsonlContent(newContent)
     IN IF ~fileExists
        THEN /\ readResult' = Some(<<>>)
             /\ UNCHANGED <<filePositions, messageCache, syncedContent>>
        ELSE /\ filePositions' = MapSet(filePositions, f, readCall.currentSize)
             /\ updateCache(f, newMessages)
             /\ readResult' = Some(newMessages)
             /\ syncedContent' = readCall.snapshot
  /\ readPc' = "idle"
  /\ UNCHANGED <<fileContent, fileExists, readCall, rewrites>>
  /\ UNCHANGED <<regVars, monVars, syncVars, tokVars, recordEvents, pureVars, reapVars, failingSends, viewers>>

\* monitor refresh: the session is no longer listed, retainOnly drops the file
RetainOnly ==
  /\ UNCHANGED rawWrites
  /\ readPc = "idle"
  /\ \E f \in DOMAIN filePositions :
       /\ filePositions' = MapDel(filePositions, f)
       /\ messageCache' = MapDel(messageCache, f)
  /\ syncedContent' = <<>>
  /\ UNCHANGED <<fileContent, fileExists, readPc, readCall, readResult, rewrites>>
  /\ UNCHANGED <<regVars, monVars, syncVars, tokVars, recordEvents, pureVars, reapVars, failingSends, viewers>>

\* the session's process appends one complete record
AppendLine ==
  /\ UNCHANGED rawWrites
  /\ Len(fileContent) + 4 <= MaxFileBytes
  /\ \E d \in Digits : fileContent' = fileContent \o LineOf(d)
  /\ fileExists' = TRUE
  /\ UNCHANGED <<filePositions, messageCache, readPc, readCall, readResult,
                 syncedContent, rewrites>>
  /\ UNCHANGED <<regVars, monVars, syncVars, tokVars, recordEvents, pureVars, reapVars, failingSends, viewers>>

\* a torn write: one byte reaches the file on its own
AppendRaw ==
  /\ fileExists
  /\ rawWrites < MaxRawWrites
  /\ Len(fileContent) + 1 <= MaxFileBytes
  /\ \E b \in RawBytes : fileContent' = Append(fileContent, b)
  /\ rawWrites' = rawWrites + 1
  /\ UNCHANGED <<rewrites, fileExists, filePositions, messageCache, readPc, readCall, readResult,
                 syncedContent>>
  /\ UNCHANGED <<regVars, monVars, syncVars, tokVars, recordEvents, pureVars, reapVars, failingSends, viewers>>

\* the file is truncated or replaced by a shorter one
Truncate ==
  /\ UNCHANGED rawWrites
  /\ fileExists
  /\ rewrites < MaxRewrites
  /\ \E n \in 0..(Len(fileContent) - 1) : fileContent' = SubSeq(fileContent, 1, n)
  /\ rewrites' = rewrites + 1
  /\ UNCHANGED <<fileExists, filePositions, messageCache, readPc, readCall, readResult,
                 syncedContent>>
  /\ UNCHANGED <<regVars, monVars, syncVars, tokVars, recordEvents, pureVars, reapVars, failingSends, viewers>>

\* the file is deleted
DeleteFile ==
  /\ UNCHANGED rawWrites
  /\ fileExists
  /\ rewrites < MaxRewrites
  /\ fileContent' = <<>>
  /\ fileExists' = FALSE
  /\ rewrites' = rewrites + 1
  /\ UNCHANGED <<filePositions, messageCache, readPc, readCall, readResult, syncedContent>>
  /\ UNCHANGED <<regVars, monVars, syncVars, tokVars, recordEvents, pureVars, reapVars, failingSends, viewers>>

\* -------------------------------------------------- cli: the reap timer
SESSION_TTL_MS == 120000
DONE_TIMEOUT_MS == 300000

\* the instants the monitor's clock shows when something happens
ReapTimes == {0, SESSION_TTL_MS, SESSION_TTL_MS + 1, DONE_TIMEOUT_MS, DONE_TIMEOUT_MS + 1}
ReapIds == {"s1", "s2"}            \* agentIds; each has its own removeAgent call
ReapActivities == {"done", "waiting_input", "running_command"}

\* TrackedSession as far as reap and syncAll read it
TrackedSessions ==
  [activity : ReapActivities, pct : {10}, isSidechain : BOOLEAN, pid : BOOLEAN,
   lastUpdate : {0}]

\* reapedAt: for each synced agent reap has asked the server to remove, the
\* number of refresh-and-sync cycles started by then
NoReap ==
  [n |-> 0, op |-> "none", found |-> {}, active |-> {}, calls |-> <<>>,
   reapedAt |-> <<>>]

\* mutant: the done rule applies to main sessions too
doneExpired_anySession(session, age) ==
  session.activity = "done" /\ age > DONE_TIMEOUT_MS

\* reapStaleSessions: the first rule
doneExpired(session, age) ==
  session.isSidechain /\ session.activity = "done" /\ age > DONE_TIMEOUT_MS

\* mutant: a session with a live process is reaped as well
ttlExpired_ignoresPid(session, age) ==
  /\ session.isSidechain
  /\ session.activity # "waiting_input"
  /\ session.activity # "done"
  /\ age > SESSION_TTL_MS

\* reapStaleSessions: the second rule
ttlExpired(session, age) ==
  /\ session.isSidechain
  /\ session.activity # "waiting_input"
  /\ session.activity # "done"
  /\ ~session.pid
  /\ age > SESSION_TTL_MS

sessionsToRemove(ses, t) ==
  {id \in DOMAIN ses : \/ doneExpired(ses[id], t - ses[id].lastUpdate)
                       \/ ttlExpired(ses[id], t - ses[id].lastUpdate)}

\* the ids in the order the session map iterates them
RECURSIVE InOrder(_, _)
InOrder(ids, i) ==
  IF i > Len(IdOrder) THEN <<>>
  ELSE (IF IdOrder[i] \in ids THEN <<IdOrder[i]>> ELSE <<>>) \o InOrder(ids, i + 1)

\* the reap interval fires: stale sessions leave the map and, with a server
\* client, removeAgent is called for each without being awaited. An earlier
\* removeAgent call for the same id has returned by then.
ReapStaleSessions ==
  LET toRemove == sessionsToRemove(sessions, clock)
      called == IF hasServerClient THEN toRemove ELSE {}
  IN /\ reapLog.n < MaxReapOps
     /\ \A id \in toRemove : req[id] = IdleReq
     /\ sessions' = [id \in DOMAIN sessions \ toRemove |-> sessions[id]]
     /\ req' = [t \in DOMAIN req |->
                  IF t \in called
                  THEN request(ClientState(t), "remove", t, Null, 0, 0, 0).rq
                  ELSE req[t]]
     /\ reapLog' = [n |-> reapLog.n + 1, op |-> "reap", found |-> {}, active |-> {},
                    calls |-> InOrder(called, 1),
                    reapedAt |->
                      [id \in DOMAIN reapLog.reapedAt \cup (called \cap syncedAgents) |->
                         IF id \in called THEN cycles ELSE reapLog.reapedAt[id]]]
     /\ UNCHANGED <<token, tokenExpiresAt, syncedAgents, lastActivityMap,
                    lastContextMap, syncTask, posted, cycles, cycleCalls, extOps,
                    netErrors, lastHandled, clock>>
     /\ UNCHANGED <<regVars, monVars, tokVars, recordEvents, readerVars, pureVars, failingSends, viewers>>

\* refresh(): the files discovery finds, those of them that are active, and
\* the session map built from the active ones
ReapRefresh ==
  /\ reapLog.n < MaxReapOps
  /\ \E found \in SUBSET ReapIds :
       \E active \in SUBSET found :
         \E ses \in [active -> TrackedSessions] :
           /\ sessions' = ses
           /\ reapLog' = [n |-> reapLog.n + 1, op |-> "refresh", found |-> found,
                          active |-> active, calls |-> <<>>,
                          reapedAt |-> reapLog.reapedAt]
  /\ UNCHANGED <<token, tokenExpiresAt, syncedAgents, lastActivityMap,
                 lastContextMap, syncTask, req, posted, cycles, cycleCalls, extOps,
                 netErrors, lastHandled, clock>>
  /\ UNCHANGED <<regVars, monVars, tokVars, recordEvents, readerVars, pureVars, failingSends, viewers>>

\* time passes at the monitor
ReapTick ==
  /\ \E t \in ReapTimes : t > clock /\ clock' = t
  /\ UNCHANGED <<regVars, monVars, syncVars, tokVars, recordEvents, readerVars,
                 pureVars, reapLog, failingSends, viewers>>

\* ------------------------------------------------------- specification
InitRegistry ==
  /\ agents = <<>>
  /\ agentOrder = <<>>
  /\ now = 0
  /\ connectedClients = {}
  /\ readyState = [c \in Clients |-> "CLOSED"]
  /\ inbox = [c \in Clients |-> <<>>]
  /\ eventLog = <<>>
  /\ connAt = [c \in Clients |-> 0]
  /\ snapAt = [c \in Clients |-> <<>>]
  /\ lastCall = [op |-> "none", id |-> Null, ownerKey |-> Null, result |-> None]
  /\ opCount = 0
  /\ connCount = 0
  /\ statsTicks = 0
  /\ idleActions = <<>>
  /\ pendingTimers = {}
  /\ canCount = 0
  /\ idleNotices = 0

InitMonitorIdle ==
  /\ isRefreshing = FALSE
  /\ refreshPending = FALSE
  /\ debounceTimer = 0
  /\ armedTimers = {}
  /\ timerLog = <<>>
  /\ cyclePc = "idle"
  /\ requests = 0
  /\ fileEvents = 0
  /\ cyclesStarted = 0
  /\ cyclesDone = 0
  /\ reqDuring = 0
  /\ coalesced = 0

InitSyncOf(tasks) ==
  /\ sessions = <<>>
  /\ token = 0
  /\ tokenExpiresAt = 0
  /\ syncedAgents = {}
  /\ lastActivityMap = <<>>
  /\ lastContextMap = <<>>
  /\ syncTask = IdleTask
  /\ req = [t \in tasks |-> IdleReq]
  /\ posted = {}
  /\ cycles = 0
  /\ cycleCalls = NoCycleCalls
  /\ extOps = 0
  /\ netErrors = 0
  /\ lastHandled = IdleReq

InitSyncIdle == InitSyncOf(Tasks)

InitTokens ==
  /\ tokens = <<>>
  /\ tokenCounter = 0
  /\ lastTokenCall = [op |-> "none", token |-> 0, at |-> 0, result |-> FALSE]

\* after start(): the timers are armed, no cycle is running
InitMonitor ==
  /\ InitMonitorIdle
  /\ hasServerClient \in BOOLEAN

\* the registry alone: every call, no subscriber
NextRegistry ==
  \/ CreateAgentCall(RegistryActivities, OwnerKeys, MaxOps)
  \/ UpdateAgentCall(RegistryActivities, MaxOps)
  \/ RemoveAgentCall(MaxOps)
  \/ Tick

\* a new IncrementalReader, the log file not written yet
InitReader ==
  /\ fileContent = <<>>
  /\ fileExists = FALSE
  /\ filePositions = <<>>
  /\ messageCache = <<>>
  /\ readPc = "idle"
  /\ readCall = IdleCall
  /\ readResult = None
  /\ syncedContent = <<>>
  /\ rewrites = 0
  /\ rawWrites = 0

InitOthersIdle ==
  /\ InitSyncIdle
  /\ InitTokens
  /\ InitReader
  /\ recordEvents = TRUE

\* the backend alone: no monitor is syncing to it
\* no pure function is being called
NoCall == [fn |-> "none"]

InitPureIdle ==
  /\ pureCall = NoCall
  /\ pureResult = None

\* a viewer that has handled no message and shows no agent
NoViewer == [read |-> 0, agentsById |-> <<>>]

InitReapIdle ==
  /\ clock = 0
  /\ reapLog = NoReap
  /\ failingSends = {}
  /\ viewers = [c \in Clients |-> NoViewer]

InitBackend ==
  /\ InitRegistry
  /\ InitMonitorIdle
  /\ hasServerClient = FALSE
  /\ InitOthersIdle
  /\ InitPureIdle
  /\ InitReapIdle

SpecRegistry == InitBackend /\ [][NextRegistry]_vars

\* a caller derives the state of an activity; pureResult collects what the
\* calls so far returned, per activity
MapActivityToState(activity) ==
  /\ pureCall' = [fn |-> "mapActivityToState", activity |-> activity]
  /\ pureResult' = MapSet(pureResult, activity, mapActivityToState(activity))
  /\ UNCHANGED <<regVars, monVars, syncVars, tokVars, recordEvents, readerVars, reapVars, failingSends, viewers>>

NextStateMapper == \E activity \in AgentActivity : MapActivityToState(activity)

SpecStateMapper == InitBackend /\ [][NextStateMapper]_vars

\* the token store with its callers
NextTokens ==
  \/ \E user \in TokenUsers : IssueToken(user)
  \/ \E ts \in TokenStrings : AuthMiddleware(ts)
  \/ \E ts \in TokenStrings : TouchToken(ts)
  \/ \E ts \in TokenStrings : RevokeToken(ts)
  \/ CleanupInterval
  \/ TokenTick

SpecTokens == InitBackend /\ [][NextTokens]_vars

\* the token store, the registry and the two cleanup intervals of index.ts
NextCleanupOf(users) ==
  \/ \E user \in users : OwnerLogin(user)
  \/ \E ts \in TokenStrings : OwnerRequest(ts)
  \/ \E ts \in TokenStrings : AuthenticatedCreate(ts)
  \/ CleanupInterval
  \/ AgentCleanupInterval
  \/ CleanupTick

NextCleanup == NextCleanupOf(TokenUsers)

SpecCleanup == InitBackend /\ [][NextCleanup]_vars

\* one owner; setInterval: the agent cleanup keeps firing, and time passes
NextOneOwnerCleanup == NextCleanupOf({"k1"})

SpecCleanupFair ==
  /\ InitBackend
  /\ [][NextOneOwnerCleanup]_vars
  /\ WF_vars(CleanupInterval)
  /\ WF_vars(AgentCleanupInterval)
  /\ WF_vars(CleanupTick)

\* the registry with the idle-action service's timers
IdleServiceActivities == {"thinking", "idle"}

NextIdle ==
  \/ CreateAgentCall(IdleServiceActivities, {"k1"}, MaxIdleOps)
  \/ UpdateAgentCall(IdleServiceActivities, MaxIdleOps)
  \/ RemoveAgentCall(MaxIdleOps)
  \/ \E id \in AgentIds : IdleTimerFires(id)
  \/ Tick

SpecIdle == InitBackend /\ [][NextIdle]_vars

\* ------------------------------------------------ gui scenes/game.gd
\* _handle_spawn_agent: an id the viewer already holds is refused
handleSpawnAgent(byId, msg) ==
  IF msg.id \in DOMAIN byId THEN byId ELSE MapSet(byId, msg.id, msg.state)

\* _handle_update_agent: agent.change_state(new_state)
handleUpdateAgent(byId, msg) ==
  IF msg.id \notin DOMAIN byId THEN byId ELSE [byId EXCEPT ![msg.id] = msg.state]

\* _handle_remove_agent: the agent starts to leave, its entry stays
handleRemoveAgent(byId, msg) ==
  IF msg.id \notin DOMAIN byId THEN byId ELSE [byId EXCEPT ![msg.id] = "LEAVING"]

\* _handle_sync_complete: the agents the list does not name start to leave
handleSyncComplete(byId, msg) ==
  [i \in DOMAIN byId |-> IF i \in SeqToSet(msg.agentIds) THEN byId[i] ELSE "LEAVING"]

\* _handle_ws_message: match msg_type
handleWsMessage(byId, msg) ==
  CASE msg.type = "spawn_agent" -> handleSpawnAgent(byId, msg)
    [] msg.type = "update_agent" -> handleUpdateAgent(byId, msg)
    [] msg.type = "remove_agent" -> handleRemoveAgent(byId, msg)
    [] msg.type = "sync_complete" -> handleSyncComplete(byId, msg)
    [] OTHER -> byId

\* the viewer behind socket c handles the next message it was sent
ViewerReceive(c) ==
  /\ viewers[c].read < Len(inbox[c])
  /\ viewers' = [viewers EXCEPT
       ![c] = [read |-> @.read + 1,
               agentsById |-> handleWsMessage(@.agentsById, inbox[c][@.read + 1])]]
  /\ UNCHANGED <<regVars, monVars, syncVars, tokVars, recordEvents, readerVars,
                 pureVars, reapVars, failingSends>>

\* a leaving agent has walked to the exit: queue_free, _on_agent_removed
AgentExits(c, id) ==
  /\ id \in DOMAIN viewers[c].agentsById
  /\ viewers[c].agentsById[id] = "LEAVING"
  /\ viewers' = [viewers EXCEPT ![c].agentsById = MapDel(@, id)]
  /\ UNCHANGED <<regVars, monVars, syncVars, tokVars, recordEvents, readerVars,
                 pureVars, reapVars, failingSends>>

\* the registry with viewers that connect and stay connected
ViewerActivities == {"thinking", "done"}

NextViewer ==
  \/ CreateAgentCall(ViewerActivities, {"k1"}, MaxViewerOps)
  \/ UpdateAgentCall(ViewerActivities, MaxViewerOps)
  \/ RemoveAgentCall(MaxViewerOps)
  \/ \E c \in Clients : Connection(c)
  \/ \E c \in Clients : ViewerReceive(c)
  \/ \E c \in Clients, id \in AgentIds : AgentExits(c, id)

SpecViewer == InitBackend /\ [][NextViewer]_vars

\* the registry with its subscribers
NextBroadcast ==
  \/ CreateAgentCall(BroadcastActivities, OwnerKeys, MaxBroadcastOps)
  \/ UpdateAgentCall(BroadcastActivities, MaxBroadcastOps)
  \/ RemoveAgentCall(MaxBroadcastOps)
  \/ \E c \in Clients : Connection(c)
  \/ \E c \in Clients : SocketClosing(c)
  \/ \E c \in Clients : CloseEvent(c)
  \/ \E c \in Clients : ErrorEvent(c)
  \/ UserStatsInterval

SpecBroadcast == InitBackend /\ [][NextBroadcast]_vars

\* the registry with subscribers whose sockets can start to fail
NextSendFailure ==
  \/ CreateAgentCall(BroadcastActivities, OwnerKeys, MaxBroadcastOps)
  \/ UpdateAgentCall(BroadcastActivities, MaxBroadcastOps)
  \/ RemoveAgentCall(MaxBroadcastOps)
  \/ \E c \in Clients : Connection(c)
  \/ \E c \in Clients : SendBreaks(c)
  \/ UserStatsInterval

SpecSendFailure == InitBackend /\ [][NextSendFailure]_vars

\* the monitor's guarded refresh cycle and the timers that request it
NextMonitor ==
  \/ FileEvent
  \/ DebounceFire
  \/ DebounceTick
  \/ PeriodicFire
  \/ RefreshDone
  \/ SyncDone

\* the monitor's refresh guard on its own
InitGuard ==
  /\ InitRegistry
  /\ InitMonitor
  /\ InitOthersIdle
  /\ InitPureIdle
  /\ InitReapIdle

SpecMonitor == InitGuard /\ [][NextMonitor]_vars

NextSync ==
  \/ RefreshAndSync
  \/ \E t \in Tasks : ClientReceive(t)
  \/ \E t \in Tasks : NetworkError(t)
  \/ \E t \in Tasks : PostAuth(t)
  \/ \E t \in Tasks : AuthenticatedRoute(t)
  \/ ExternalCreate
  \/ ExternalRemove
  \/ SyncTick

\* Date.now() advances while a call of the client is under way
RetryTick ==
  /\ now < MaxRetryTime
  /\ syncTask.pc # "idle"
  /\ now' = now + 1
  /\ UNCHANGED <<agents, agentOrder, connectedClients, readyState, inbox, eventLog,
                 connAt, snapAt, lastCall, opCount, connCount, statsTicks>>
  /\ UNCHANGED <<idleVars, nonRegVars>>

\* the monitor syncing to a backend whose tokens expire under its calls
RetrySessionMaps == {[id \in {"s1"} |-> [activity |-> "running_command", pct |-> 10]]}

NextRetry ==
  \/ RefreshAndSyncOf(RetrySessionMaps, MaxRetryCycles)
  \/ \E t \in Tasks : ClientReceive(t)
  \/ \E t \in Tasks : NetworkError(t)
  \/ \E t \in Tasks : PostAuth(t)
  \/ \E t \in Tasks : AuthenticatedRoute(t)
  \/ RetryTick

\* the monitor syncing to a backend; no GUI connected, no event history kept
InitSync ==
  /\ InitRegistry
  /\ InitMonitorIdle
  /\ hasServerClient = TRUE
  /\ InitSyncIdle
  /\ InitTokens
  /\ InitReader
  /\ recordEvents = FALSE
  /\ InitPureIdle
  /\ InitReapIdle

SpecSync == InitSync /\ [][NextSync]_vars

SpecRetry == InitSync /\ [][NextRetry]_vars

\* the monitor syncing to a backend nobody else uses, with the history of
\* each cycle's calls kept
NextHeartbeat ==
  \/ RefreshAndSync
  \/ \E t \in Tasks : ClientReceive(t)
  \/ \E t \in Tasks : NetworkError(t)
  \/ \E t \in Tasks : PostAuth(t)
  \/ \E t \in Tasks : AuthenticatedRoute(t)
  \/ SyncTick

InitHeartbeat ==
  /\ InitRegistry
  /\ InitMonitorIdle
  /\ hasServerClient = TRUE
  /\ InitSyncIdle
  /\ InitTokens
  /\ InitReader
  /\ recordEvents = TRUE
  /\ InitPureIdle
  /\ InitReapIdle

SpecHeartbeat == InitHeartbeat /\ [][NextHeartbeat]_vars

\* the same, with agents removed on the backend behind the client's back
NextConverge ==
  \/ RefreshAndSync
  \/ \E t \in Tasks : ClientReceive(t)
  \/ \E t \in Tasks : NetworkError(t)
  \/ \E t \in Tasks : PostAuth(t)
  \/ \E t \in Tasks : AuthenticatedRoute(t)
  \/ ExternalRemove
  \/ SyncTick

SpecConverge == InitHeartbeat /\ [][NextConverge]_vars

\* the monitor's reap timer and refreshes, with or without a server client;
\* the backend answers the remove calls
NextReap ==
  \/ ReapRefresh
  \/ ReapStaleSessions
  \/ ReapTick
  \/ \E t \in ReapIds : ClientReceive(t)
  \/ \E t \in ReapIds : PostAuth(t)
  \/ \E t \in ReapIds : AuthenticatedRoute(t)

InitReap ==
  /\ InitRegistry
  /\ InitMonitorIdle
  /\ hasServerClient \in BOOLEAN
  /\ InitSyncOf(Tasks \cup ReapIds)
  /\ InitTokens
  /\ InitReader
  /\ recordEvents = FALSE
  /\ InitPureIdle
  /\ InitReapIdle

SpecReap == InitReap /\ [][NextReap]_vars

NextReader ==
  \/ \E f \in Files : ReadNewLines(f)
  \/ StatDone
  \/ ReadDone
  \/ RetainOnly
  \/ AppendLine
  \/ AppendRaw
  \/ Truncate
  \/ DeleteFile

\* the reader following one log file that its owner keeps writing
SpecReader == InitBackend /\ [][NextReader]_vars

\* ------------------- cli: the incremental reader next to a slow writer
\* the bytes after the last newline: the line the writer has not finished
openLine ==
  LET newlines == {i \in 1..Len(fileContent) : fileContent[i] = "n"}
      start == IF newlines = {} THEN 0
               ELSE CHOOSE i \in newlines : \A j \in newlines : j <= i
  IN SubSeq(fileContent, start + 1, Len(fileContent))

\* the session's process appends one complete record in one write
WholeLine == openLine = <<>> /\ AppendLine

\* the first bytes of a record reach the file, the rest is still to come
AppendPart ==
  /\ rawWrites < MaxRawWrites
  /\ openLine = <<>>
  /\ Len(fileContent) + 4 <= MaxFileBytes
  /\ \E d \in Digits : \E k \in 1..3 :
       fileContent' = fileContent \o SubSeq(LineOf(d), 1, k)
  /\ fileExists' = TRUE
  /\ rawWrites' = rawWrites + 1
  /\ UNCHANGED <<rewrites, filePositions, messageCache, readPc, readCall, readResult,
                 syncedContent>>
  /\ UNCHANGED <<regVars, monVars, syncVars, tokVars, recordEvents, pureVars, reapVars, failingSends, viewers>>

\* the rest of the record reaches the file
AppendRest ==
  /\ openLine # <<>>
  /\ \E d \in Digits :
       /\ SubSeq(LineOf(d), 1, Len(openLine)) = openLine
       /\ fileContent' = fileContent \o SubSeq(LineOf(d), Len(openLine) + 1, 4)
  /\ UNCHANGED <<rawWrites, rewrites, fileExists, filePositions, messageCache, readPc,
                 readCall, readResult, syncedContent>>
  /\ UNCHANGED <<regVars, monVars, syncVars, tokVars, recordEvents, pureVars, reapVars, failingSends, viewers>>

NextTornWrites ==
  \/ \E f \in Files : ReadNewLines(f)
  \/ StatDone
  \/ ReadDone
  \/ WholeLine
  \/ AppendPart
  \/ AppendRest

\* the reader following a log file whose writer appends well-formed records,
\* some of them in two writes
SpecTornWrites == InitBackend /\ [][NextTornWrites]_vars

\* ================================================================ claims
IsAgentMsg(m) == m.type \in {"spawn_agent", "update_agent", "remove_agent"}
IsSyncComplete(m) == m.type = "sync_complete"
HasSync(s) == \E i \in 1..Len(s) : IsSyncComplete(s[i])
SyncIndex(s) == CHOOSE i \in 1..Len(s) : IsSyncComplete(s[i])
AfterSync(s) == SubSeq(s, SyncIndex(s) + 1, Len(s))
BeforeSync(s) == SubSeq(s, 1, SyncIndex(s) - 1)
\* a message and a registry event, reduced to what both carry
MsgKey(m) ==
  [type |-> CASE m.type = "spawn_agent" -> "spawn"
              [] m.type = "update_agent" -> "update"
              [] m.type = "remove_agent" -> "remove",
   id |-> m.id,
   state |-> IF m.type = "remove_agent" THEN "-" ELSE m.state]
EventKey(e) ==
  [type |-> e.type, id |-> e.id, state |-> IF e.type = "remove" THEN "-" ELSE e.state]
MsgKeys(s) == LET a == SelectSeq(s, IsAgentMsg) IN [i \in 1..Len(a) |-> MsgKey(a[i])]
EventsSince(n) == [i \in 1..(Len(eventLog) - n) |-> EventKey(eventLog[n + i])]
IsPrefix(s, t) == Len(s) <= Len(t) /\ SubSeq(t, 1, Len(s)) = s
\* a subscriber is connected when its socket is registered and open
Subscribed(c) == c \in connectedClients /\ readyState[c] = "OPEN"
IsRegistryCall == opCount' = opCount + 1
EventOfOp(op) == IF op = "create" THEN "spawn" ELSE op

\* C1 (order): every subscriber has received, after its replay, exactly the
\* registry events that succeeded since it connected, in the order in which
\* they succeeded.
C1_Order ==
  \A c \in Clients :
    Subscribed(c) => /\ HasSync(inbox[c])
                     /\ MsgKeys(AfterSync(inbox[c])) = EventsSince(connAt[c])

\* C1 (step): a successful create, update or remove writes exactly one
\* spawn_agent, update_agent or remove_agent message for that id to every
\* subscriber connected at that moment and to nobody else; a failed call
\* writes nothing to anybody.
C1_Step ==
  IsRegistryCall =>
    \A c \in Clients :
      /\ IsPrefix(inbox[c], inbox'[c])
      /\ LET new == MsgKeys(SubSeq(inbox'[c], Len(inbox[c]) + 1, Len(inbox'[c])))
         IN IF lastCall'.result # None /\ Subscribed(c)
            THEN /\ Len(new) = 1
                 /\ new[1].type = EventOfOp(lastCall'.op)
                 /\ new[1].id = lastCall'.id
            ELSE inbox'[c] = inbox[c]

\* C1: each successful mutation delivers exactly one typed message to every
\* connected subscriber, all subscribers see the mutations in the order in
\* which they succeeded, and a failed mutation delivers nothing.
C1_FanOutInOrder == []C1_Order /\ [][C1_Step]_vars

C1_Witness ==
  /\ \A c \in Clients : Subscribed(c) /\ connAt[c] = 0
  /\ Len(eventLog) = 2
  /\ lastCall.result # None

\* C2: the socket that has just connected has been written one spawn_agent
\* per agent of the registry at connection time, then a single sync_complete
\* whose agentIds are exactly the ids of the registry at connection time.
C2_Step ==
  \A c \in Clients :
    (c \notin connectedClients /\ c \in connectedClients') =>
      LET got == inbox'[c]
          n == Cardinality(DOMAIN agents)
      IN /\ Len(got) >= n + 1
         /\ \A i \in 1..n : got[i].type = "spawn_agent"
         /\ \A id \in DOMAIN agents :
              Cardinality({i \in 1..n : got[i].id = id /\ got[i].state = agents[id].state}) = 1
         /\ got[n + 1].type = "sync_complete"
         /\ Len(got[n + 1].agentIds) = n
         /\ SeqToSet(got[n + 1].agentIds) = DOMAIN agents
         /\ Cardinality({i \in 1..Len(got) : got[i].type = "sync_complete"}) = 1
         /\ \A i \in (n + 2)..Len(got) : ~IsAgentMsg(got[i])

C2_ReplayThenSyncComplete == [][C2_Step]_vars

C2_Witness ==
  \E c \in Clients :
    /\ Subscribed(c)
    /\ Len(snapAt[c]) = 2
    /\ Len(inbox[c]) >= 3
    /\ inbox[c][3].type = "sync_complete"
    /\ SeqToSet(inbox[c][3].agentIds) = AgentIds

\* C3: on every socket, everything before sync_complete is the replay of the
\* registry as it was when the socket connected, position by position, with
\* no broadcast in between; and an open socket has received, after
\* sync_complete, every registry event that happened after that snapshot.
C3_AtomicReplay ==
  \A c \in Clients :
    /\ (c \in connectedClients \/ inbox[c] # <<>>) =>
         /\ HasSync(inbox[c])
         /\ Len(BeforeSync(inbox[c])) = Len(snapAt[c])
         /\ \A i \in 1..Len(snapAt[c]) :
              /\ inbox[c][i].type = "spawn_agent"
              /\ inbox[c][i].id = snapAt[c][i]
         /\ IsPrefix(MsgKeys(AfterSync(inbox[c])), EventsSince(connAt[c]))
    /\ readyState[c] = "OPEN" => MsgKeys(AfterSync(inbox[c])) = EventsSince(connAt[c])

C3_Witness ==
  \E c \in Clients :
    /\ Subscribed(c)
    /\ Len(snapAt[c]) = 1
    /\ Len(eventLog) = connAt[c] + 1
    /\ eventLog[Len(eventLog)].type = "spawn"
    /\ Len(MsgKeys(AfterSync(inbox[c]))) = 1

\* C4: a create whose id is already in the registry returns nothing, leaves
\* the registry (every field of every agent, and the key order) as it was
\* and emits no event.
C4_Step ==
  (IsRegistryCall /\ lastCall'.op = "create" /\ lastCall'.id \in DOMAIN agents) =>
    /\ lastCall'.result = None
    /\ agents' = agents
    /\ agentOrder' = agentOrder
    /\ eventLog' = eventLog
    /\ inbox' = inbox

C4_DuplicateCreateFails == [][C4_Step]_vars

C4_Witness ==
  /\ lastCall.op = "create"
  /\ lastCall.result = None
  /\ lastCall.id \in DOMAIN agents
  /\ agents[lastCall.id].ownerKey = lastCall.ownerKey
  /\ agents[lastCall.id].updatedAt < now

\* C5: an update or remove by a key that does not own the agent returns
\* nothing, leaves the agent in the registry with its activity, state and
\* updatedAt (and everything else) as they were, and emits no event.
C5_Step ==
  (/\ IsRegistryCall
   /\ lastCall'.op \in {"update", "remove"}
   /\ lastCall'.id \in DOMAIN agents
   /\ agents[lastCall'.id].ownerKey # lastCall'.ownerKey) =>
    /\ lastCall'.result = None
    /\ lastCall'.id \in DOMAIN agents'
    /\ agents' = agents
    /\ eventLog' = eventLog
    /\ inbox' = inbox

C5_NonOwnerCallFails == [][C5_Step]_vars

C5_Witness ==
  /\ lastCall.op = "remove"
  /\ lastCall.result = None
  /\ lastCall.id \in DOMAIN agents
  /\ agents[lastCall.id].ownerKey # lastCall.ownerKey
  /\ Len(eventLog) = 2

\* C6: every stored agent's state is the state the activity-to-state table
\* gives for its current activity.
C6_StateDerivedFromActivity ==
  \A id \in DOMAIN agents :
    /\ agents[id].activity \in WorkingActivities => agents[id].state = "WORKING"
    /\ agents[id].activity \in IdleActivities => agents[id].state = "IDLE"
    /\ agents[id].activity \in LeavingActivities => agents[id].state = "LEAVING"

C6_Witness ==
  \E id \in DOMAIN agents :
    /\ agents[id].updatedAt > agents[id].createdAt
    /\ agents[id].state = "LEAVING"
    /\ Len(eventLog) = 3
    /\ eventLog[1].state = "WORKING"

\* C7 (state): a re-run is pending exactly when a timer call arrived during
\* the running cycle, and only while a cycle is running.
C7_PendingFlag ==
  /\ refreshPending <=> (isRefreshing /\ reqDuring >= 1)
  /\ isRefreshing <=> cyclePc # "idle"
  /\ cyclesStarted = cyclesDone + (IF isRefreshing THEN 1 ELSE 0)

\* C7 (step): a timer call during a running cycle starts nothing; when the
\* cycle finishes, exactly one further cycle starts if one or more calls
\* arrived during it, however many, and none otherwise.
C7_Step ==
  /\ (requests' = requests + 1 /\ isRefreshing) =>
       /\ cyclesStarted' = cyclesStarted
       /\ refreshPending'
  /\ (cyclesDone' = cyclesDone + 1) =>
       IF reqDuring >= 1
       THEN /\ cyclesStarted' = cyclesStarted + 1
            /\ isRefreshing' /\ ~refreshPending'
            /\ cyclePc' = "refresh"
       ELSE /\ cyclesStarted' = cyclesStarted
            /\ ~isRefreshing' /\ ~refreshPending'

\* C7: requests arriving while a cycle is in flight queue exactly one further
\* cycle, which runs when the current one finishes.
C7_OnePendingCycle == []C7_PendingFlag /\ [][C7_Step]_vars

C7_Witness ==
  /\ coalesced >= 2
  /\ isRefreshing
  /\ cyclesStarted = 2
  /\ cyclesDone = 1

\* ------------------------------------------------------ claims C8 - C10
CreateInFlight(t) == req[t].op = "create"

\* C8: the client never sends, nor prepares, a create request whose backend
\* activity is done: not from syncAll for an unsynced session, not from the
\* not-found recovery of an update, not from the conflict recovery of a create.
C8_DoneNeverCreated ==
  /\ "done" \notin posted
  /\ \A t \in Tasks : CreateInFlight(t) => req[t].act # "done"

\* a done update was answered not-found and dropped, and the same cycle went
\* past an unsynced done session, without any create for a done activity
C8_Witness ==
  /\ lastHandled.op = "update" /\ lastHandled.stage = "fetch"
  /\ lastHandled.status = 404 /\ lastHandled.act = "done"
  /\ lastHandled.id = "s1" /\ "s1" \notin syncedAgents
  /\ "s2" \in DOMAIN sessions /\ sessions["s2"].activity = "done"
  /\ "s2" \notin syncedAgents
  /\ syncTask.pc = "idle"
  /\ posted # {}

\* the step in which task t resumes on a not-found answer to its update
UpdateAnsweredNotFound(t) ==
  /\ req[t].wire = "in" /\ req[t].stage = "fetch"
  /\ req[t].op = "update" /\ req[t].status = 404
  /\ lastHandled' = req[t]
  /\ req'[t] # req[t]

LocalStateCleared(id) ==
  /\ id \notin syncedAgents'
  /\ id \notin DOMAIN lastActivityMap'
  /\ id \notin DOMAIN lastContextMap'

RecreateStarted(t) ==
  /\ req'[t].op = "create"
  /\ req'[t].id = req[t].id
  /\ req'[t].act = req[t].act
  /\ req'[t].pct = req[t].pct

NotFoundRecovery(t) ==
  /\ LocalStateCleared(req[t].id)
  /\ IF req[t].act = "done"
     THEN ~(req'[t].op = "create" /\ req'[t].id = req[t].id)
     ELSE RecreateStarted(t)

C9_OriginalStep ==
  \A t \in Tasks : UpdateAnsweredNotFound(t) => NotFoundRecovery(t)

\* C9 as stated: every update answered not-found clears the local sync state
\* of the id and re-creates the agent unless the pending activity is done.
C9_Original == [][C9_OriginalStep]_vars

C9_Step ==
  \A t \in Tasks :
    (UpdateAnsweredNotFound(t) /\ req[t].depth < MaxDepth) => NotFoundRecovery(t)

\* C9 (amended): when an update made at recursion depth below 3 is answered
\* not-found, the client clears its local sync state for the id (synced set,
\* last activity, last context) and starts re-creating the agent with the same
\* activity and context, unless the pending activity is done, in which case no
\* create is made for the id and the id is dropped.
C9_NotFoundRecovery == [][C9_Step]_vars

\* a re-create is under way after a not-found update of a live session
C9_Witness ==
  /\ lastHandled.op = "update" /\ lastHandled.stage = "fetch"
  /\ lastHandled.status = 404 /\ lastHandled.act # "done"
  /\ \E t \in Tasks :
       /\ req[t].op = "create" /\ req[t].id = lastHandled.id
       /\ req[t].depth = lastHandled.depth + 1
       /\ req[t].id \notin syncedAgents

\* position of the upsert loop of syncAll before and after a step
LoopBefore ==
  IF cycles' # cycles THEN 0
  ELSE CASE syncTask.pc = "remove" -> 0
         [] syncTask.pc = "upsert" -> syncTask.last
         [] OTHER -> Len(IdOrder) + 1
LoopAfter ==
  CASE syncTask'.pc = "remove" -> 0
    [] syncTask'.pc = "upsert" -> syncTask'.last
    [] OTHER -> Len(IdOrder) + 1

\* the upsert loop came to the session id in this step
Reached(id) == LoopBefore < IndexOf(id) /\ LoopAfter >= IndexOf(id)

\* a request concerning id is put on the wire or prepared in this step
CallStartedFor(id) ==
  /\ req'["sync"] # req["sync"]
  /\ req'["sync"].id = id
  /\ req'["sync"].wire = "out"

C10_Step ==
  \A id \in DOMAIN sessions' :
    LET activity == mapActivityToBackend(sessions'[id].activity)
        pct == sessions'[id].pct
        unchanged == MapHas(lastActivityMap, id, activity) /\ MapHas(lastContextMap, id, pct)
    IN id \in syncedAgents =>
         /\ unchanged => ~CallStartedFor(id)
         /\ (~unchanged /\ Reached(id)) =>
              /\ LoopAfter = IndexOf(id)
              /\ req'["sync"].op = "update"
              /\ req'["sync"].id = id
              /\ req'["sync"].act = activity
              /\ req'["sync"].pct = pct

\* C10: while a synced session's backend activity and context percentage equal
\* the values recorded at its last successful sync, no step of syncAll starts a
\* request for it; once either differs, syncAll on reaching the session starts
\* an update carrying the new values.
C10_UnchangedTupleNoCall == [][C10_Step]_vars

\* s1 is synced and unchanged and the loop went past it without a call; s2 is
\* synced, its tuple differs, and its update is on the wire
C10_Witness ==
  /\ {"s1", "s2"} \subseteq syncedAgents /\ {"s1", "s2"} \subseteq DOMAIN sessions
  /\ MapHas(lastActivityMap, "s1", mapActivityToBackend(sessions["s1"].activity))
  /\ MapHas(lastContextMap, "s1", sessions["s1"].pct)
  /\ syncTask.pc = "upsert" /\ syncTask.last = IndexOf("s2")
  /\ ~syncTask.madeApiCall
  /\ req["sync"].op = "update" /\ req["sync"].id = "s2" /\ req["sync"].depth = 0
  /\ req["sync"].stage = "fetch" /\ req["sync"].wire = "out"
  /\ lastContextMap["s2"] # sessions["s2"].pct

\* ----------------------------------------------------- claims C11 - C13
Tracked(f) == f \in DOMAIN filePositions

\* bytes that are nothing but complete well-formed lines
WellFormedLines(bytes) ==
  /\ Len(bytes) % 4 = 0
  /\ \A i \in 1..(Len(bytes) \div 4) :
       \E d \in Digits : SubSeq(bytes, 4 * (i - 1) + 1, 4 * i) = LineOf(d)

\* the records such bytes carry, in order
RecordsOf(bytes) == [i \in 1..(Len(bytes) \div 4) |-> bytes[4 * (i - 1) + 2]]

IsSuffixOf(s, t) == Len(s) <= Len(t) /\ SubSeq(t, Len(t) - Len(s) + 1, Len(t)) = s

\* the step in which a readNewLines call returns after reading bytes
ReadReturns == readPc = "read" /\ readPc' = "idle" /\ fileExists

C11_Cap ==
  \A f \in DOMAIN messageCache : Len(messageCache[f]) <= MaxCachedMessages

C11_Step ==
  ReadReturns =>
    LET f == readCall.file
        seen == readCall.snapshot
        appended == SubSeq(seen, Len(syncedContent) + 1, Len(seen))
    IN /\ ( /\ Tracked(f)
            /\ IsPrefix(syncedContent, seen)
            /\ WellFormedLines(appended)
            /\ IsPrefix(seen, fileContent) )
          => readResult' = Some(RecordsOf(appended))
       /\ IsSuffixOf(messageCache'[f], getCached(f) \o readResult'[1])
       /\ Len(messageCache'[f]) = Min(MaxCachedMessages, Len(getCached(f)) + Len(readResult'[1]))

\* C11: when the content of a tracked file is what the reader last accounted
\* for plus k appended well-formed lines, the read returns exactly those k
\* records; the per-file cache never holds more than the configured cap, and a
\* read keeps the newest records of old cache plus new records.
C11_AppendedRecordsAndCap == []C11_Cap /\ [][C11_Step]_vars

\* two lines appended after the first read were returned, and the cache,
\* already holding one record, dropped its oldest to stay at the cap
C11_Witness ==
  /\ readPc = "idle" /\ rewrites = 0 /\ rawWrites = 0
  /\ Len(fileContent) = 12 /\ syncedContent = fileContent
  /\ readCall.lastPosition = 4 /\ ~readCall.didReset
  /\ readResult = Some(RecordsOf(SubSeq(fileContent, 5, 12)))
  /\ messageCache["f1"] = sliceLast(RecordsOf(fileContent), MaxCachedMessages)
  /\ fileContent[2] # fileContent[6]

C12_Step ==
  ( /\ readPc = "stat"
    /\ <<readPc, readCall, filePositions>>' # <<readPc, readCall, filePositions>>
    /\ fileExists
    /\ Tracked(readCall.file)
    /\ fileContent = syncedContent ) =>
      /\ readPc' = "idle"
      /\ readResult' = Some(<<>>)
      /\ UNCHANGED <<filePositions, messageCache>>

\* C12: a read of a tracked file whose content is exactly what the previous
\* read accounted for returns no records and leaves offset and cache as they
\* were.
C12_SecondReadEmpty == [][C12_Step]_vars

\* a second read of an unchanged three-line file returned nothing
C12_Witness ==
  /\ readPc = "idle" /\ rewrites = 0 /\ rawWrites = 0
  /\ readResult = Some(<<>>)
  /\ Tracked("f1") /\ filePositions["f1"] = Len(fileContent)
  /\ Len(fileContent) = 12 /\ fileContent = syncedContent
  /\ Len(messageCache["f1"]) = MaxCachedMessages

\* the step in which stat shows the file below the stored offset
ShrinkSeen ==
  /\ readPc = "stat" /\ fileExists
  /\ Len(fileContent) < getPosition(readCall.file)
  /\ <<readPc, readCall, filePositions>>' # <<readPc, readCall, filePositions>>

\* the step in which a call that went through a reset returns
ResetCallReturns ==
  /\ readPc # "idle" /\ readPc' = "idle" /\ fileExists
  /\ readCall.didReset
  /\ readPc = "read" => fileContent = readCall.snapshot

C13_Step ==
  /\ ShrinkSeen =>
       /\ filePositions'[readCall.file] = 0
       /\ readCall.file \notin DOMAIN messageCache'
       /\ readPc' = "stat"
  /\ ResetCallReturns =>
       /\ readResult' = Some(parseJsonlContent(fileContent))
       /\ getCached(readCall.file)' = sliceLast(readResult'[1], MaxCachedMessages)

\* C13: when stat shows a tracked file smaller than its stored offset, the
\* reader sets the offset to 0 and drops the file's cache, and the same call
\* goes on as a cold start: it returns the records of the whole current
\* content and the cache afterwards holds none of the earlier records.
C13_ShrinkIsColdStart == [][C13_Step]_vars

\* after a two-line file was cut back to one line, the read returned that
\* line alone and the cache holds only it
C13_Witness ==
  /\ readPc = "idle" /\ readCall.didReset
  /\ rewrites = 1 /\ rawWrites = 0 /\ Len(fileContent) = 4
  /\ readResult = Some(<<fileContent[2]>>)
  /\ messageCache["f1"] = <<fileContent[2]>>
  /\ filePositions["f1"] = 4

\* ------------------------------------------ cli activity-tracker.ts
ACTIVITY_TIMEOUT_MS == 30000
WAITING_INPUT_TIMEOUT_MS == 1800000
USER_INPUT_TOOLS == {"AskUserQuestion", "EnterPlanMode", "ExitPlanMode"}

\* TOOL_ACTIVITY_MAP, for the tools of the model
TOOL_ACTIVITY_MAP ==
  [Read |-> "reading", Bash |-> "running_command", AskUserQuestion |-> "waiting_input"]

\* content blocks: a text block, a tool_result block and a tool_use block,
\* written as its tool name; Frob is a tool the map does not know
ToolNames == {"Read", "AskUserQuestion", "Frob"}
BlockKinds == {"text", "tool_result"} \cup ToolNames
isToolUse(b) == b \in ToolNames

\* message.content is a string (isString) or an array of blocks; type and
\* message.role agree, as they do in the session logs
Contents ==
  UNION {[1..n -> BlockKinds] : n \in 0..MaxBlocks}
Messages ==
  [type : {"user", "assistant"}, isString : {FALSE}, blocks : Contents]
    \cup [type : {"user", "assistant"}, isString : {TRUE}, blocks : {<<>>}]
Windows == UNION {[1..n -> Messages] : n \in 0..MaxWindow}
\* time since the last modification, ms: fresh, at and past the staleness
\* threshold, past the waiting-for-input timeout
Ages == {0, ACTIVITY_TIMEOUT_MS, ACTIVITY_TIMEOUT_MS + 1, WAITING_INPUT_TIMEOUT_MS + 1}

hasBlock(msg, kind) == \E k \in 1..Len(msg.blocks) : msg.blocks[k] = kind
hasToolUseBlock(msg) == \E k \in 1..Len(msg.blocks) : isToolUse(msg.blocks[k])

\* content.find(block => block.type === 'tool_use'): the first such block
firstToolUse(msg) ==
  LET ks == {k \in 1..Len(msg.blocks) : isToolUse(msg.blocks[k])}
  IN IF ks = {} THEN None
     ELSE Some(msg.blocks[CHOOSE k \in ks : \A j \in ks : k <= j])

Activity(type, toolName) == [type |-> type, toolName |-> toolName]

\* mutant: the liveness hint is ignored
staleTypeOf_alwaysDone(hasPid) == "done"

staleTypeOf(hasPid) == IF hasPid THEN "idle" ELSE "done"

staleOr(isStale, hasPid, type) ==
  Activity(IF isStale THEN staleTypeOf(hasPid) ELSE type, Null)

\* the check of the very last message
\* mutant: the last message check never looks at the age of the file
lastMessageCheck_ignoresStale(messages, isStale, hasPid) ==
  IF Len(messages) = 0 THEN None
  ELSE IF messages[Len(messages)].type # "user" THEN None
  ELSE Some(Activity("thinking", Null))

lastMessageCheck(messages, isStale, hasPid) ==
  IF Len(messages) = 0 THEN None
  ELSE LET lastMsg == messages[Len(messages)]
       IN IF lastMsg.type # "user" THEN None
          ELSE IF lastMsg.isString THEN Some(staleOr(isStale, hasPid, "thinking"))
          ELSE IF hasBlock(lastMsg, "tool_result") THEN Some(Activity("thinking", Null))
          ELSE Some(staleOr(isStale, hasPid, "thinking"))

\* a waits-for-user tool without a user response after it: abandoned after
\* WAITING_INPUT_TIMEOUT_MS, waiting for input until then
\* mutant: a question left unanswered goes stale after 30 s like any tool call
waitingForInput_stale(age, hasPid, toolName) ==
  IF age > ACTIVITY_TIMEOUT_MS THEN Activity(staleTypeOf(hasPid), Null)
  ELSE Activity("waiting_input", toolName)

waitingForInput(age, hasPid, toolName) ==
  IF age > WAITING_INPUT_TIMEOUT_MS THEN Activity("done", Null)
  ELSE Activity("waiting_input", toolName)

\* the reverse loop, from message i down to the first
RECURSIVE scanMessages(_, _, _, _)
scanMessages(messages, i, age, hasPid) ==
  IF i = 0 THEN Activity("idle", Null)
  ELSE
    LET msg == messages[i]
        isStale == age > ACTIVITY_TIMEOUT_MS
        tu == firstToolUse(msg)
        named == tu # None
        hasUserResponseAfter == \E k \in (i + 1)..Len(messages) : messages[k].type = "user"
    IN IF ~msg.isString /\ named
       THEN IF tu[1] \in USER_INPUT_TOOLS
            THEN IF hasUserResponseAfter THEN staleOr(isStale, hasPid, "thinking")
                 ELSE waitingForInput(age, hasPid, tu[1])
            ELSE IF isStale THEN Activity(staleTypeOf(hasPid), Null)
            ELSE IF tu[1] \in DOMAIN TOOL_ACTIVITY_MAP
                 THEN Activity(TOOL_ACTIVITY_MAP[tu[1]], tu[1])
                 ELSE Activity("thinking", tu[1])
       ELSE IF ~msg.isString /\ msg.type = "assistant" /\ hasBlock(msg, "text")
                 /\ ~hasToolUseBlock(msg)
       THEN Activity(staleTypeOf(hasPid), Null)
       ELSE IF ~msg.isString /\ msg.type = "assistant" /\ hasBlock(msg, "text")
       THEN staleOr(isStale, hasPid, "thinking")
       ELSE IF msg.type = "user" /\ ~msg.isString /\ hasBlock(msg, "tool_result")
       THEN staleOr(isStale, hasPid, "thinking")
       ELSE scanMessages(messages, i - 1, age, hasPid)

getLatestActivity(messages, age, hasPid) ==
  LET first == lastMessageCheck(messages, age > ACTIVITY_TIMEOUT_MS, hasPid)
  IN IF first # None THEN first[1]
     ELSE scanMessages(messages, Len(messages), age, hasPid)

ClassifierCalls ==
  [fn : {"getLatestActivity"}, messages : Windows, age : Ages, hasPid : BOOLEAN]

\* the monitor classifies one window
GetLatestActivity ==
  /\ pureCall.fn = "getLatestActivity"
  /\ pureResult = None
  /\ pureResult' = Some(getLatestActivity(pureCall.messages, pureCall.age, pureCall.hasPid))
  /\ UNCHANGED <<regVars, monVars, syncVars, tokVars, recordEvents, readerVars, pureCall,
                 reapVars, failingSends, viewers>>

InitClassifier ==
  /\ InitRegistry
  /\ InitMonitorIdle
  /\ hasServerClient = FALSE
  /\ InitOthersIdle
  /\ pureCall \in ClassifierCalls
  /\ pureResult = None
  /\ InitReapIdle

SpecClassifier == InitClassifier /\ [][GetLatestActivity]_vars

\* ----------------------------- cli: refresh, syncAll and reap side by side
\* the sub-agent log files on disk, none of them written to any more:
\* s1 ends in a tool result, s2 ends in a Read call of the assistant
SidechainLog(id) ==
  IF id = "s1"
  THEN <<[type |-> "user", isString |-> FALSE, blocks |-> <<"tool_result">>]>>
  ELSE <<[type |-> "assistant", isString |-> FALSE, blocks |-> <<"Read">>]>>

\* buildTrackedSession for a sub-agent file last modified at 0 and read at t
buildTrackedSession(id, hasPid, t) ==
  [activity |-> getLatestActivity(SidechainLog(id), t, hasPid).type,
   pct |-> 10, isSidechain |-> TRUE, pid |-> hasPid, lastUpdate |-> 0]

\* refresh(): the session maps it can build now; discovery finds one of the
\* files or none, the process scan finds a process for it or not
RefreshedMaps ==
  UNION {{[id \in found |-> buildTrackedSession(id, pids[id], clock)] :
            pids \in [found -> BOOLEAN]} : found \in {{}} \cup {{id} : id \in ReapIds}}

\* time passes at the monitor: to just past one of the two reap thresholds
OverlapTick == ReapTick /\ clock' \in {SESSION_TTL_MS + 1, DONE_TIMEOUT_MS + 1}

NextOverlap ==
  \/ RefreshAndSyncOf(RefreshedMaps, MaxOverlapCycles)
  \/ ReapStaleSessions
  \/ OverlapTick
  \/ \E t \in Tasks \cup ReapIds : ClientReceive(t)
  \/ \E t \in Tasks \cup ReapIds : PostAuth(t)
  \/ \E t \in Tasks \cup ReapIds : AuthenticatedRoute(t)

InitOverlap ==
  /\ InitRegistry
  /\ InitMonitorIdle
  /\ hasServerClient = TRUE
  /\ InitSyncOf(Tasks \cup ReapIds)
  /\ InitTokens
  /\ InitReader
  /\ recordEvents = FALSE
  /\ InitPureIdle
  /\ InitReapIdle

SpecOverlap == InitOverlap /\ [][NextOverlap]_vars

\* ------------------------------------------------------------ C14, C15
\* the agent holds an idle action: its idleAction is an assignment, neither
\* null nor undefined
HoldsIdleAction(id) == id \in DOMAIN idleActions /\ idleActions[id] # None

IdleHolders == {i \in DOMAIN agents : agents[i].state = "IDLE" /\ HoldsIdleAction(i)}

\* C14: in every reachable state the IDLE agents holding an idle action are at
\* most 40% of the IDLE agents
C14_AtMostFortyPercent ==
  5 * Cardinality(IdleHolders) <= 2 * countIdleAgents(agents)

\* C15: an agent's idleAction is an assignment only while its state is IDLE
C15_ActionOnlyWhenIdle ==
  \A i \in DOMAIN agents : HoldsIdleAction(i) => agents[i].state = "IDLE"

\* a holder has been moved out of IDLE: it is WORKING with idleAction null
\* after an action was assigned
C15_Witness ==
  /\ canCount >= 1
  /\ \E i \in DOMAIN agents :
       agents[i].state = "WORKING" /\ MapHas(idleActions, i, None)

\* ------------------------------------------------------------------ C16
\* the window ends in an assistant message whose content has a text block
\* and no tool_use block
EndsInAssistantText(messages) ==
  /\ Len(messages) > 0
  /\ LET m == messages[Len(messages)]
     IN m.type = "assistant" /\ ~m.isString /\ hasBlock(m, "text") /\ ~hasToolUseBlock(m)

ClassifiedTextOnly ==
  /\ pureCall.fn = "getLatestActivity"
  /\ pureResult # None
  /\ EndsInAssistantText(pureCall.messages)

\* C16 as stated: done with a liveness hint, idle without one
C16_Original ==
  ClassifiedTextOnly =>
    pureResult[1].type = (IF pureCall.hasPid THEN "done" ELSE "idle")

\* C16 amended: a window ending in an assistant text-only message classifies
\* as idle with a liveness hint and as done without one, never as thinking,
\* at every age of the file
C16_TextOnlyIdleOrDone ==
  ClassifiedTextOnly =>
    /\ pureResult[1].type = (IF pureCall.hasPid THEN "idle" ELSE "done")
    /\ pureResult[1].type # "thinking"

\* a fresh window that ends in assistant text after a tool result, with a pid
C16_Witness ==
  /\ ClassifiedTextOnly
  /\ pureCall.hasPid
  /\ pureCall.age = 0
  /\ Len(pureCall.messages) = 2
  /\ hasBlock(pureCall.messages[1], "tool_result")
  /\ pureResult[1].type = "idle"

\* ------------------------------------------------------------ C17 - C19
\* the step is a token-manager call of the given kind
TokenCallStep(op) == lastTokenCall' # lastTokenCall /\ lastTokenCall'.op = op

\* C17 as stated: the store never holds two tokens of one user
C17_Original ==
  \A t1, t2 \in DOMAIN tokens : tokens[t1].user = tokens[t2].user => t1 = t2

\* C17 amended: issuing a token adds one fresh token to the store and leaves
\* every token already held, those of the same user included, as it was
C17_IssueKeepsEarlierTokens ==
  [][TokenCallStep("generate") =>
       LET new == lastTokenCall'.token
       IN /\ new \notin DOMAIN tokens
          /\ DOMAIN tokens' = DOMAIN tokens \cup {new}
          /\ \A t \in DOMAIN tokens : tokens'[t] = tokens[t]]_vars

\* an earlier token of a user has just passed validation while a later token
\* of the same user is in the store
C17_Witness ==
  /\ lastTokenCall.op = "validate"
  /\ lastTokenCall.result
  /\ \E t \in DOMAIN tokens :
       /\ t > lastTokenCall.token
       /\ lastTokenCall.token \in DOMAIN tokens
       /\ tokens[t].user = tokens[lastTokenCall.token].user

\* the token string is in the store and the clock has not passed its expiry
Live(ts) == ts \in DOMAIN tokens /\ now <= tokens[ts].expiresAt

\* C18: validate returns the token iff it is stored and unexpired; a success
\* sets lastActivity to now and nothing else; an expired token is evicted and
\* nothing is returned; a token that left the store never comes back, so a
\* later validate of the same string fails too
C18_ValidateContract ==
  [][/\ TokenCallStep("validate") =>
          LET ts == lastTokenCall'.token
          IN /\ lastTokenCall'.result = Live(ts)
             /\ Live(ts) => tokens' = [tokens EXCEPT ![ts].lastActivity = now]
             /\ (ts \in DOMAIN tokens /\ ~Live(ts)) =>
                  (ts \notin DOMAIN tokens' /\ tokens' = MapDel(tokens, ts))
             /\ ts \notin DOMAIN tokens => tokens' = tokens
             /\ UNCHANGED <<tokenCounter, regVars, monVars, syncVars, readerVars>>
     /\ \A t \in 1..tokenCounter : t \notin DOMAIN tokens => t \notin DOMAIN tokens'
    ]_vars

\* validate has refused and evicted an expired token while another token is
\* still held
C18_Witness ==
  /\ lastTokenCall.op = "validate"
  /\ ~lastTokenCall.result
  /\ lastTokenCall.token \in 1..tokenCounter
  /\ lastTokenCall.token \notin DOMAIN tokens
  /\ lastTokenCall.at > TokenLifetime
  /\ tokens # <<>>

C19_Fixed ==
  \A t \in DOMAIN tokens : tokens[t].expiresAt = tokens[t].createdAt + TokenLifetime

C19_Step ==
  \A t \in DOMAIN tokens \cap DOMAIN tokens' :
    /\ tokens'[t].createdAt = tokens[t].createdAt
    /\ tokens'[t].expiresAt = tokens[t].expiresAt

\* C19: every stored token has expiresAt = createdAt + lifetime, and no call
\* (validate, touch, sweep included) changes a stored token's createdAt or
\* expiresAt
C19_ExpiryFixedAtIssue == []C19_Fixed /\ [][C19_Step]_vars

\* a token has been touched after the clock moved on from its creation
C19_Witness ==
  /\ lastTokenCall.op = "touch"
  /\ lastTokenCall.result
  /\ lastTokenCall.token \in DOMAIN tokens
  /\ tokens[lastTokenCall.token].lastActivity > tokens[lastTokenCall.token].createdAt

\* ------------------------------------------------------------------ C20
\* the table of the claim
C20_Table ==
  [thinking |-> "WORKING", working |-> "WORKING", coding |-> "WORKING",
   reading |-> "WORKING", writing |-> "WORKING",
   done |-> "IDLE", idle |-> "IDLE", waiting |-> "IDLE", paused |-> "IDLE",
   leaving |-> "LEAVING", offline |-> "LEAVING", disconnected |-> "LEAVING"]

C20_AsTabulated ==
  /\ pureCall.fn = "mapActivityToState" => pureCall.activity \in DOMAIN pureResult
  /\ \A a \in DOMAIN pureResult : pureResult[a] = C20_Table[a]

C20_SameAgain ==
  \A a \in DOMAIN pureResult : a \in DOMAIN pureResult' /\ pureResult'[a] = pureResult[a]

\* C20: every call of the state mapper returns a state, the one the table
\* gives for its activity, and a repeated call returns what the earlier call
\* for that activity returned
C20_DeriveStateIsTable == []C20_AsTabulated /\ [][C20_SameAgain]_vars

\* every one of the twelve activities has been mapped, disconnected last
C20_Witness ==
  /\ DOMAIN pureResult = DOMAIN C20_Table
  /\ pureCall = [fn |-> "mapActivityToState", activity |-> "disconnected"]
  /\ pureResult["disconnected"] = "LEAVING"

\* ------------------------------------------------------------------ C21
\* cycles that passed the guard and have not reached their finally block
CyclesInFlight == cyclesStarted - cyclesDone

\* C21: at most one refresh-render-sync cycle started through
\* debouncedRefreshCycle is in flight, and one is in flight exactly while
\* isRefreshing is set
C21_OneCycleInFlight ==
  /\ CyclesInFlight \in {0, 1}
  /\ (CyclesInFlight = 1) = isRefreshing
  /\ (cyclePc # "idle") = isRefreshing

\* the second cycle is syncing while two more timer calls have arrived
C21_Witness ==
  /\ cyclePc = "sync"
  /\ cyclesDone >= 1
  /\ reqDuring >= 2
  /\ refreshPending

\* ------------------------------------------------------------------ C22
\* the step in which task t resumes on the answer to its request of kind op
Answered(t, op) ==
  /\ req[t].wire = "in" /\ req[t].stage = "fetch" /\ req[t].op = op
  /\ lastHandled' = req[t]
  /\ req'[t] # req[t]

\* the last-known tuple of id is written in this step
TupleRecorded(id) ==
  \/ id \in DOMAIN lastActivityMap' /\ ~MapHas(lastActivityMap, id, lastActivityMap'[id])
  \/ id \in DOMAIN lastContextMap' /\ ~MapHas(lastContextMap, id, lastContextMap'[id])

\* what the conflict recovery does with the request of task t
ConflictRecovery(t) ==
  /\ req[t].id \in syncedAgents'
  /\ req'[t].op = "update"
  /\ req'[t].id = req[t].id
  /\ req'[t].act = req[t].act
  /\ req'[t].pct = req[t].pct
  /\ req'[t].depth = req[t].depth + 1
  /\ ~TupleRecorded(req[t].id)

\* the tuple of an id is written on a successful update, and only on a
\* successful create or update of that id
RecordedOnSuccessOnly ==
  /\ \A t \in Tasks :
       (Answered(t, "update") /\ req[t].status = 200) =>
         /\ MapHas(lastActivityMap', req[t].id, req[t].act)
         /\ MapHas(lastContextMap', req[t].id, req[t].pct)
  /\ \A id \in AgentIds :
       TupleRecorded(id) =>
         \E t \in Tasks :
           /\ req[t].id = id
           /\ req[t].status \in {200, 201}
           /\ Answered(t, "create") \/ Answered(t, "update")

C22_OriginalStep ==
  /\ \A t \in Tasks :
       (Answered(t, "create") /\ req[t].status = 409) => ConflictRecovery(t)
  /\ RecordedOnSuccessOnly

\* C22 as stated: every create answered with conflict puts the id into the
\* synced set and starts an update of the same session instead of another
\* create; the last-known tuple is recorded only when that update succeeds
C22_Original == [][C22_OriginalStep]_vars

C22_Step ==
  /\ \A t \in Tasks :
       (Answered(t, "create") /\ req[t].status = 409) =>
         IF req[t].depth < MaxDepth
         THEN ConflictRecovery(t)
         ELSE /\ ~(req'[t].id = req[t].id /\ req'[t].op \in {"create", "update"})
              /\ UNCHANGED <<syncedAgents, lastActivityMap, lastContextMap>>
  /\ RecordedOnSuccessOnly

\* C22 (amended): a create made at recursion depth below 3 and answered with
\* conflict puts the id into the synced set and starts an update of the same
\* session, one level deeper, instead of another create; a create at depth 3
\* answered with conflict returns without a further call and without touching
\* the local state; the last-known activity and context are written only when
\* a create or update of the id is answered with success
C22_ConflictSwitchesToUpdate == [][C22_Step]_vars

\* the update that followed a conflict has succeeded and its tuple is recorded
C22_Witness ==
  /\ lastHandled.op = "update" /\ lastHandled.stage = "fetch"
  /\ lastHandled.depth = 1 /\ lastHandled.status = 200
  /\ lastHandled.id \in syncedAgents
  /\ MapHas(lastActivityMap, lastHandled.id, lastHandled.act)
  /\ MapHas(lastContextMap, lastHandled.id, lastHandled.pct)

\* ------------------------------------------------------------------ C23
\* the request of task t continues the create/update chain of the request
\* it was answered on
ChainContinues(t) ==
  /\ req'[t].op \in {"create", "update"}
  /\ req'[t].id = req[t].id
  /\ req'[t].depth > 0

C23_Bounded == \A t \in Tasks : req[t].depth <= MaxDepth

C23_Step ==
  \A t \in Tasks :
    /\ (Answered(t, "create") \/ Answered(t, "update")) =>
         \* a chain only ever goes one level deeper, switching the operation
         /\ ChainContinues(t) =>
              (req'[t].depth = req[t].depth + 1 /\ req'[t].op # req[t].op)
            \/ (req'[t].depth = req[t].depth /\ req'[t].op = req[t].op)
         \* at depth 3 a conflict or not-found ends the chain with a failure
         /\ (req[t].depth = MaxDepth /\ req[t].status \in {404, 409}) =>
              /\ ~ChainContinues(t)
              /\ UNCHANGED <<syncedAgents, lastActivityMap, lastContextMap>>

\* C23: the create/update recursion of one session goes one level deeper with
\* every conflict or not-found answer, never beyond depth 3, and a conflict
\* or not-found answer at depth 3 ends it without a further call
C23_RecursionStopsAtDepth3 == []C23_Bounded /\ [][C23_Step]_vars

\* the server answered conflict, not-found, conflict, not-found: the update
\* at depth 3 has returned failure and the cycle has moved on
C23_Witness ==
  /\ lastHandled.op = "update" /\ lastHandled.stage = "fetch"
  /\ lastHandled.depth = MaxDepth /\ lastHandled.status = 404
  /\ req["sync"].op # "create"
  /\ lastHandled.id \in syncedAgents

\* ------------------------------------------------------------------ C24
\* the step in which task t resumes on a response in the given stage
AnsweredIn(t, stage) ==
  /\ req[t].wire = "in" /\ req[t].stage = stage
  /\ lastHandled' = req[t]
  /\ req'[t] # req[t]

\* the request of task t is the same call as before
SameCall(t) ==
  /\ req'[t].op = req[t].op /\ req'[t].id = req[t].id
  /\ req'[t].act = req[t].act /\ req'[t].pct = req[t].pct
  /\ req'[t].depth = req[t].depth

\* the call of task t has returned a failed result: its caller went on
\* without recording anything
CallFailed(t) ==
  /\ req'[t].stage # "reauth"
  /\ ~(SameCall(t) /\ req'[t].retry > 0)
  /\ UNCHANGED <<syncedAgents, lastActivityMap, lastContextMap>>

C24_Bounded == \A t \in Tasks : req[t].retry <= MaxRetry

C24_Step ==
  \A t \in Tasks :
    /\ (AnsweredIn(t, "fetch") /\ req[t].status = 401) =>
         IF req[t].retry < MaxRetry
         THEN \* the credential is dropped and /auth is asked again
              /\ token' = 0 /\ tokenExpiresAt' = 0
              /\ req'[t].stage = "reauth" /\ req'[t].wire = "out"
              /\ SameCall(t) /\ req'[t].retry = req[t].retry
         ELSE CallFailed(t)
    /\ (AnsweredIn(t, "reauth") /\ req[t].status = 200) =>
         \* the original call is made again, counted
         /\ SameCall(t) /\ req'[t].retry = req[t].retry + 1
         /\ req'[t].stage \in {"fetch", "auth"} /\ req'[t].wire = "out"
         /\ token' = req[t].tok
    /\ (AnsweredIn(t, "reauth") /\ req[t].status # 200) => CallFailed(t)

\* C24: a 401 to a call retried fewer than 3 times drops the cached token and
\* asks /auth again; a successful re-authentication repeats the call with the
\* retry count raised by one, a failed one ends the call with a failed result;
\* the retry count never exceeds 3 and a 401 to the third retry ends the call
\* with a failed result
C24_RetriesBounded == []C24_Bounded /\ [][C24_Step]_vars

\* the third retry was answered 401 as well and the call has ended
C24_Witness ==
  /\ lastHandled.stage = "fetch" /\ lastHandled.status = 401
  /\ lastHandled.retry = MaxRetry
  /\ syncTask.pc = "idle"
  /\ syncedAgents = {}
  /\ tokenCounter = MaxRetry + 1

\* ---------------------------------------------------------------- C25
\* C25: a syncAll calls heartbeat once, at its end, if and only if it began no
\* remove, update or create call and the synced set is not empty then; a
\* cycle that began such a call, or that has no synced agent, calls none.
\* (Without an agent call the synced set does not change during the cycle, so
\* its value at the end of the loops is its value in the state examined.)
CycleAtEnd == cycles > 0 /\ syncTask.pc \in {"idle", "heartbeat"}

C25_HeartbeatIffQuietCycle ==
  /\ cycleCalls.beats =
       IF CycleAtEnd /\ cycleCalls.ops = {} /\ syncedAgents # {} THEN 1 ELSE 0
  /\ (syncTask.pc = "heartbeat") = (cycleCalls.beats = 1 /\ req["sync"].op = "heartbeat")

\* a quiet cycle over a synced agent has sent its heartbeat and ended
C25_Witness ==
  /\ cycles = 2
  /\ syncTask.pc = "idle"
  /\ cycleCalls.ops = {}
  /\ cycleCalls.beats = 1
  /\ lastHandled.op = "heartbeat"
  /\ syncedAgents # {}

\* a cycle that made an agent call ended without a heartbeat though an agent
\* is synced
C25_WitnessNone ==
  /\ cycles >= 1
  /\ syncTask.pc = "idle"
  /\ cycleCalls.ops # {}
  /\ cycleCalls.beats = 0
  /\ syncedAgents # {}

\* ---------------------------------------------------------------- C26
\* C26: a reap removes from the session map exactly the sidechain sessions
\* that are done and older than 5 minutes, or that have no pid, are neither
\* waiting_input nor done and are older than 2 minutes; it leaves every other
\* session as it was, and (with a server client, the only case in which there
\* is a server to call) it calls remove once for each removed id and for no
\* other id.
AgeOf(id) == clock - sessions[id].lastUpdate

Reapable(id) ==
  /\ sessions[id].isSidechain
  /\ \/ sessions[id].activity = "done" /\ AgeOf(id) > 5 * 60 * 1000
     \/ /\ ~sessions[id].pid
        /\ sessions[id].activity \notin {"waiting_input", "done"}
        /\ AgeOf(id) > 2 * 60 * 1000

ReapRan == reapLog'.n = reapLog.n + 1 /\ reapLog'.op = "reap"

CalledOnce(ids) ==
  /\ SeqToSet(reapLog'.calls) = ids
  /\ Len(reapLog'.calls) = Cardinality(ids)
  /\ \A t \in DOMAIN req :
       IF t \in ids
       THEN req'[t].op = "remove" /\ req'[t].id = t /\ req'[t].wire = "out"
       ELSE req'[t] = req[t]

C26_Step ==
  ReapRan =>
    LET stale == {id \in DOMAIN sessions : Reapable(id)}
    IN /\ DOMAIN sessions' = DOMAIN sessions \ stale
       /\ \A id \in DOMAIN sessions' : sessions'[id] = sessions[id]
       /\ CalledOnce(IF hasServerClient THEN stale ELSE {})

C26_ReapRemovesExactlyStale == [][C26_Step]_vars

\* a reap removed two stale sidechains and each has its remove call out
C26_Witness ==
  /\ reapLog.op = "reap"
  /\ reapLog.calls = <<"s1", "s2">>
  /\ sessions = <<>>
  /\ req["s1"].op = "remove" /\ req["s2"].op = "remove"

\* a reap at the same age kept a sidechain because it has a pid
C26_WitnessKept ==
  /\ reapLog.op = "reap"
  /\ reapLog.calls = <<"s1">>
  /\ clock > DONE_TIMEOUT_MS
  /\ DOMAIN sessions = {"s2"}
  /\ sessions["s2"].isSidechain /\ sessions["s2"].pid
  /\ sessions["s2"].activity = "running_command"

\* ---------------------------------------------------------------- C27
\* C27: a reap leaves every main (non-sidechain) session in the map, as it
\* was and without a remove call, whatever its activity, pid and age; a main
\* session leaves the map only in a refresh that does not find its file
\* among the active ones.
MainSessions == {id \in DOMAIN sessions : ~sessions[id].isSidechain}

RefreshRan == reapLog'.n = reapLog.n + 1 /\ reapLog'.op = "refresh"

C27_Step ==
  \A id \in MainSessions :
    /\ ReapRan => /\ id \in DOMAIN sessions'
                  /\ sessions'[id] = sessions[id]
                  /\ req'[id] = req[id]
    /\ id \notin DOMAIN sessions' => RefreshRan /\ id \notin reapLog'.active

C27_MainSessionsNotReaped == [][C27_Step]_vars

\* a reap has run over a main session that is done, has no pid and is older
\* than both timeouts, and the session is still there
C27_Witness ==
  /\ reapLog.op = "reap"
  /\ clock > DONE_TIMEOUT_MS
  /\ "s1" \in DOMAIN sessions
  /\ ~sessions["s1"].isSidechain
  /\ sessions["s1"].activity = "done"
  /\ ~sessions["s1"].pid
  /\ req["s1"] = IdleReq

\* ---------------------------------------------------------------- C28
\* C28: at most one debounce timer is pending at any time, and it is the one
\* set by the latest notification; the timer of a notification that was
\* followed by another less than 500 ms later never fires, and the timer of
\* the last notification of such a burst fires once and not before 500 ms
\* after it: a burst makes a single refresh request, after its last
\* notification.
FollowedWithin500(h) ==
  h < Len(timerLog) /\ timerLog[h + 1].at - timerLog[h].at < 500

C28_Coalesced ==
  /\ Cardinality(armedTimers) <= 1
  /\ armedTimers \subseteq {debounceTimer}
  /\ Len(timerLog) = fileEvents
  /\ \A h \in 1..Len(timerLog) :
       /\ timerLog[h].fires <= 1
       /\ FollowedWithin500(h) => timerLog[h].fires = 0 /\ h \notin armedTimers
       /\ timerLog[h].fires = 1 => clock >= timerLog[h].at + 500
       /\ h = Len(timerLog) => (h \in armedTimers) = (timerLog[h].fires = 0)

C28_Step ==
  \A h \in DOMAIN timerLog :
    timerLog'[h].fires = timerLog[h].fires + 1 =>
      /\ requests' = requests + 1
      /\ ~FollowedWithin500(h)

C28_BurstMakesOneRequest == []C28_Coalesced /\ [][C28_Step]_vars

\* three notifications 250 ms apart, and only the timer of the third fired
C28_Witness ==
  /\ Len(timerLog) = 3
  /\ timerLog[1] = [at |-> 0, fires |-> 0]
  /\ timerLog[2] = [at |-> 250, fires |-> 0]
  /\ timerLog[3] = [at |-> 500, fires |-> 1]
  /\ armedTimers = {}
  /\ requests = 1

\* ---------------------------------------------------------------- C29
\* C29: an update that takes an agent out of IDLE leaves no idle-action timer
\* pending for it and, if the agent held an assigned idle action, sets it to
\* null and calls the idle-action listeners once; a timer firing for an agent
\* that is missing or not IDLE assigns nothing. Because of the first part a
\* pending timer always belongs to an IDLE agent.
TakenOutOfIdle(id) ==
  /\ id \in DOMAIN agents /\ agents[id].state = "IDLE"
  /\ id \in DOMAIN agents' /\ agents'[id].state # "IDLE"

TimerFiredFor(id) ==
  /\ id \in pendingTimers
  /\ UNCHANGED <<agents, opCount, now>>
  /\ pendingTimers' = pendingTimers \ {id}

C29_TimersOfIdleAgents ==
  \A id \in pendingTimers : id \in DOMAIN agents /\ agents[id].state = "IDLE"

C29_Step ==
  \A id \in AgentIds :
    /\ TakenOutOfIdle(id) =>
         /\ id \notin pendingTimers'
         /\ idleNotices' <= idleNotices + 1
         /\ (HoldsIdleAction(id) /\ id \in DOMAIN idleActions) =>
              /\ idleActions'[id] = None
              /\ idleNotices' = idleNotices + 1
    /\ (TimerFiredFor(id) /\ (id \notin DOMAIN agents \/ agents[id].state # "IDLE")) =>
         UNCHANGED <<idleActions, canCount, idleNotices>>

C29_LeavingIdleCancels == []C29_TimersOfIdleAgents /\ [][C29_Step]_vars

\* an agent that held an assigned action has been updated out of IDLE: the
\* action is null, no timer is pending, and the listeners were called for
\* the earlier reset, the assignment and this reset
C29_Witness ==
  /\ canCount = 1
  /\ idleNotices = 3
  /\ pendingTimers = {}
  /\ \E i \in DOMAIN agents :
       agents[i].state = "WORKING" /\ MapHas(idleActions, i, None)

\* ---------------------------------------------------------------- C30
\* C30: when a registry call that is valid (a create of a new id, an update
\* or remove of an agent by its owner) is made while send throws on some
\* subscriber's socket, the call still returns the agent and changes the
\* registry, every other connected, open subscriber is written the one
\* message of the event, and the failing socket is written nothing.
FailingSubscribers == {c \in Clients : Subscribed(c) /\ c \in failingSends}

ValidCall ==
  IF lastCall'.op = "create" THEN lastCall'.id \notin DOMAIN agents
  ELSE /\ lastCall'.id \in DOMAIN agents
       /\ agents[lastCall'.id].ownerKey = lastCall'.ownerKey

TookEffect ==
  /\ lastCall'.result # None
  /\ IF lastCall'.op = "remove"
     THEN lastCall'.id \notin DOMAIN agents'
     ELSE /\ lastCall'.id \in DOMAIN agents'
          /\ lastCall'.result = Some(agents'[lastCall'.id])
  /\ Len(eventLog') = Len(eventLog) + 1

C30_Step ==
  (IsRegistryCall /\ ValidCall /\ FailingSubscribers # {}) =>
    /\ TookEffect
    /\ \A c \in Clients :
         LET new == SubSeq(inbox'[c], Len(inbox[c]) + 1, Len(inbox'[c]))
         IN /\ IsPrefix(inbox[c], inbox'[c])
            /\ IF Subscribed(c) /\ c \notin failingSends
               THEN /\ Len(MsgKeys(new)) = 1
                    /\ MsgKeys(new)[1].type = EventOfOp(lastCall'.op)
                    /\ MsgKeys(new)[1].id = lastCall'.id
               ELSE new = <<>>

C30_FailedSendIsIsolated == [][C30_Step]_vars

\* both subscribers connected before the first event; send throws on w1; the
\* call succeeded, w2 has its message and w1 has none
C30_Witness ==
  /\ failingSends = {"w1"}
  /\ Subscribed("w1") /\ Subscribed("w2")
  /\ connAt["w1"] = 0 /\ connAt["w2"] = 0
  /\ Len(eventLog) = 1
  /\ lastCall.result # None
  /\ Len(MsgKeys(AfterSync(inbox["w2"]))) = 1
  /\ Len(MsgKeys(AfterSync(inbox["w1"]))) = 0


\* ---------------------------------------------------------------- C31
\* the owners of the stored tokens, and for an owner the most recent
\* lastActivity over ALL of its stored tokens
StoredOwners(toks) == {toks[x].user : x \in DOMAIN toks}
MostRecentActivity(toks, key) == latestActivity(toks, DOMAIN toks, key)

InactiveFor(toks, t, key) == 2 * (t - MostRecentActivity(toks, key)) > InactivityTimeoutHalves

\* C31: getInactiveUserKeys(timeout) reports an owner exactly when the most
\* recent lastActivity over all of that owner's tokens is older than the timeout
C31_InactiveOwnersExact ==
  pureCall.fn = "getInactiveUserKeys" =>
    pureResult = {k \in StoredOwners(pureCall.tokens) :
                    InactiveFor(pureCall.tokens, pureCall.at, k)}

\* the part of C31 that does hold: an owner with a stale unexpired token and a
\* recently used unexpired token is not reported
C31_RecentTokenProtects ==
  pureCall.fn = "getInactiveUserKeys" =>
    \A k \in pureResult : InactiveFor(pureCall.tokens, pureCall.at, k)

\* the owner's only token is stored, expired, and last used longer ago than
\* the timeout: the owner is not reported
C31_ExpiredOwnerUnreported ==
  /\ pureCall.fn = "getInactiveUserKeys"
  /\ \E k \in StoredOwners(pureCall.tokens) :
       /\ InactiveFor(pureCall.tokens, pureCall.at, k)
       /\ k \notin pureResult


\* ---------------------------------------------------------------- C40
\* C40: with a positive inactivity timeout, once the owners have stopped
\* making authenticated requests every agent of every owner is eventually
\* removed from the registry by the periodic cleanup, and stays removed
C40_InactiveOwnersAgentsRemoved ==
  \A k \in TokenUsers : <>[](getAgentsByOwner(agents, k) = {})

\* what the cleanup does achieve: an agent whose owner is reported inactive,
\* or that has been done for longer than the done timeout, is gone after the
\* interval's callback
C40_Step ==
  (pureCall' # pureCall /\ pureCall'.fn = "getInactiveUserKeys") =>
    \A i \in DOMAIN agents' :
      /\ agents'[i].ownerKey \notin pureResult'
      /\ ~(agents'[i].activity = "done" /\
           2 * (now - agents'[i].updatedAt) > DoneTimeoutHalves)

C40_ReportedOwnersAgentsRemoved == [][C40_Step]_vars

\* the clock has reached its bound, the owner's last request lies more than
\* the timeout back, its token has expired or been swept, the cleanup has run
\* since, and an agent of the owner is still registered
C40_AgentOutlivesOwner ==
  /\ now = MaxCleanupTime
  /\ cleanupRanNow
  /\ unexpiredTokens(tokens, now) = {}
  /\ DOMAIN agents # {}

\* whatever the time, the interval's callback leaves an agent in place that
\* is not done and whose owner has no unexpired token in the store
C40_ForgottenStep ==
  (pureCall' # pureCall /\ pureCall'.fn = "getInactiveUserKeys") =>
    \A i \in DOMAIN agents :
      (/\ agents[i].activity # "done"
       /\ \A x \in unexpiredTokens(tokens, now) : tokens[x].user # agents[i].ownerKey)
        => i \in DOMAIN agents'

C40_ForgottenOwnerKeepsAgents == [][C40_ForgottenStep]_vars


\* ------------------------------------------------------------ C32, C33
\* the records of the window that carry a tool invocation, and the newest
NamedToolRecords(messages) ==
  {i \in 1..Len(messages) : ~messages[i].isString /\ firstToolUse(messages[i]) # None}

NewestToolRecord(messages) ==
  CHOOSE i \in NamedToolRecords(messages) : \A j \in NamedToolRecords(messages) : j <= i

\* the newest record with a tool invocation names a waits-for-user tool and
\* no user record follows it
AwaitsUser(messages) ==
  /\ NamedToolRecords(messages) # {}
  /\ LET i == NewestToolRecord(messages)
     IN /\ firstToolUse(messages[i])[1] \in USER_INPUT_TOOLS
        /\ \A k \in (i + 1)..Len(messages) : messages[k].type # "user"

\* an assistant record with a text block and no tool_use follows record i
TextOnlyAfter(messages, i) ==
  \E k \in (i + 1)..Len(messages) :
    /\ messages[k].type = "assistant" /\ ~messages[k].isString
    /\ hasBlock(messages[k], "text") /\ ~hasToolUseBlock(messages[k])

Classified == pureCall.fn = "getLatestActivity" /\ pureResult # None

WaitingOrAbandoned ==
  pureResult[1].type =
    (IF pureCall.age > WAITING_INPUT_TIMEOUT_MS THEN "done" ELSE "waiting_input")

\* C32 as stated: such a window classifies as waiting_input whatever the 30 s
\* staleness threshold says, and as done once more than 30 min have passed
C32_Original ==
  (Classified /\ AwaitsUser(pureCall.messages)) => WaitingOrAbandoned

\* the tool invocation is an assistant record
AskedByAssistant(messages) ==
  AwaitsUser(messages) /\ messages[NewestToolRecord(messages)].type = "assistant"

\* C32 amended: the same, for a tool invocation in an assistant record that no
\* assistant text-only record follows; with such a record after it the window
\* classifies by the liveness rule (idle with a pid, done without)
C32_UnansweredQuestionWaits ==
  (Classified /\ AskedByAssistant(pureCall.messages)) =>
    IF TextOnlyAfter(pureCall.messages, NewestToolRecord(pureCall.messages))
    THEN pureResult[1].type = (IF pureCall.hasPid THEN "idle" ELSE "done")
    ELSE /\ WaitingOrAbandoned
         /\ pureResult[1].type = "waiting_input" => pureResult[1].toolName = "AskUserQuestion"

\* a question asked 30 s + 1 ms ago, the file untouched since: past the
\* staleness threshold and still waiting for input
C32_Witness ==
  /\ Classified
  /\ AskedByAssistant(pureCall.messages)
  /\ ~TextOnlyAfter(pureCall.messages, NewestToolRecord(pureCall.messages))
  /\ pureCall.age = ACTIVITY_TIMEOUT_MS + 1
  /\ pureResult[1].type = "waiting_input"

\* the question was abandoned: more than 30 min have passed
C32_WitnessDone ==
  /\ Classified
  /\ AskedByAssistant(pureCall.messages)
  /\ pureCall.age = WAITING_INPUT_TIMEOUT_MS + 1
  /\ pureResult[1].type = "done"

\* the very last record is a user-authored message that is no tool result
EndsInPlainUser(messages) ==
  /\ Len(messages) > 0
  /\ LET m == messages[Len(messages)]
     IN m.type = "user" /\ (m.isString \/ ~hasBlock(m, "tool_result"))

\* C33 as stated: thinking while fresh; past 30 s, done with a liveness hint
\* and idle without one
C33_Original ==
  (Classified /\ EndsInPlainUser(pureCall.messages)) =>
    pureResult[1].type =
      (IF pureCall.age <= ACTIVITY_TIMEOUT_MS THEN "thinking"
       ELSE IF pureCall.hasPid THEN "done" ELSE "idle")

\* C33 amended: thinking while fresh; past 30 s, idle with a liveness hint
\* and done without one
C33_PlainUserThinkingOrStale ==
  (Classified /\ EndsInPlainUser(pureCall.messages)) =>
    pureResult[1].type =
      (IF pureCall.age <= ACTIVITY_TIMEOUT_MS THEN "thinking"
       ELSE IF pureCall.hasPid THEN "idle" ELSE "done")

\* a plain user message, stale by 1 ms, the process alive: idle
C33_Witness ==
  /\ Classified
  /\ EndsInPlainUser(pureCall.messages)
  /\ pureCall.age = ACTIVITY_TIMEOUT_MS + 1
  /\ pureCall.hasPid
  /\ pureResult[1].type = "idle"

\* the same message exactly 30 s old is still fresh: thinking
C33_WitnessFresh ==
  /\ Classified
  /\ EndsInPlainUser(pureCall.messages)
  /\ pureCall.age = ACTIVITY_TIMEOUT_MS
  /\ pureResult[1].type = "thinking"


\* ---------------------------------------------------------------- C34
\* the viewer behind c has handled every message it was sent and none of its
\* agents is still walking to the exit
Settled(c) ==
  /\ Subscribed(c)
  /\ viewers[c].read = Len(inbox[c])
  /\ \A i \in DOMAIN viewers[c].agentsById : viewers[c].agentsById[i] # "LEAVING"

RECURSIVE StreamIds(_)
StreamIds(msgs) ==
  IF msgs = <<>> THEN {}
  ELSE LET before == StreamIds(SubSeq(msgs, 1, Len(msgs) - 1))
           m == msgs[Len(msgs)]
       IN CASE m.type = "spawn_agent" -> before \cup {m.id}
            [] m.type = "remove_agent" -> before \ {m.id}
            [] m.type = "sync_complete" -> before \cap SeqToSet(m.agentIds)
            [] OTHER -> before

\* what does hold: the messages written to a subscriber describe the
\* registry's id set after every step
C34_StreamMatchesRegistry ==
  \A c \in Clients : Subscribed(c) => StreamIds(inbox[c]) = DOMAIN agents

\* the registry holds an agent that a settled viewer does not show
C34_AgentNotShown ==
  \E c \in Clients : Settled(c) /\ DOMAIN agents \ DOMAIN viewers[c].agentsById # {}


\* ---------------------------------------------------------------- C35
\* a syncAll has run to its end and each of its calls returned data
CleanCycleEnd == cycles > 0 /\ syncTask.pc = "idle" /\ ~cycleCalls.failed

BackendActivityOf(id) == mapActivityToBackend(sessions[id].activity)

\* the synced set after the cycle: the sessions that were synced when it began
\* or that are not done; in particular no id outside the session set
SyncedAsExpected ==
  syncedAgents = {id \in DOMAIN sessions :
                    id \in cycleCalls.synced0 \/ BackendActivityOf(id) # "done"}

ServerHoldsSynced ==
  \A id \in syncedAgents :
    id \in DOMAIN agents /\ agents[id].activity = BackendActivityOf(id)

\* the server's copy of a synced agent, if it still has one, is current; it has
\* one unless the agent was removed on the server behind the client's back
ServerCurrentWhereHeld ==
  \A id \in syncedAgents :
    /\ id \in DOMAIN agents => agents[id].activity = BackendActivityOf(id)
    /\ extOps = 0 => id \in DOMAIN agents

\* the client handles the response that ends a call without data: the
\* last-known tuple does not become the tuple that was sent, a session whose
\* create failed is not marked synced, an agent whose remove failed stays synced
FailureKeepsTuple ==
  LET r == req["sync"]
  IN (r.wire = "in" /\ req' # req /\ callFailed(r) /\ r.status # 404) =>
       CASE r.op = "update" ->
              /\ ~(MapHas(lastActivityMap', r.id, r.act) /\ MapHas(lastContextMap', r.id, r.pct))
              /\ r.id \in syncedAgents'
         [] r.op = "create" -> r.id \notin syncedAgents'
         [] r.op = "remove" -> r.id \in syncedAgents'
         [] OTHER -> TRUE

\* C35 as stated: after one syncAll whose requests all succeeded the synced set
\* is as expected and the server holds every synced agent with the session's
\* current activity; a failed call leaves the last-known tuple alone
C35_Original ==
  /\ [](CleanCycleEnd => (SyncedAsExpected /\ ServerHoldsSynced))
  /\ [][FailureKeepsTuple]_vars

\* C35 amended: the same, except that the server is only known to hold a
\* synced agent while nobody else has removed it; the copy it holds is current
C35_SyncAllConverges ==
  /\ [](CleanCycleEnd => (SyncedAsExpected /\ ServerCurrentWhereHeld))
  /\ [][FailureKeepsTuple]_vars

\* the first cycle lost a call to a network error, the second cycle, over a
\* session that is not done, made the call again and the server holds the agent
C35_Witness ==
  /\ CleanCycleEnd
  /\ cycles = 2
  /\ netErrors = 1
  /\ extOps = 0
  /\ cycleCalls.synced0 = {}
  /\ cycleCalls.ops = {"create"}
  /\ syncedAgents # {}
  /\ ServerHoldsSynced

\* a synced done session whose agent the backend has removed: the cycle makes
\* no call for it and the server does not hold it
C35_WitnessRemovedBehind ==
  /\ CleanCycleEnd
  /\ \E id \in syncedAgents : id \notin DOMAIN agents


\* ------------------------------------------------------------ C36, C37
\* no cycle is running and no call of the client is under way
OverlapQuiet == syncTask.pc = "idle" /\ \A t \in DOMAIN req : req[t] = IdleReq

\* C36: whenever every request of the client has completed, reap's calls
\* included, the synced set contains every agent the server holds
C36_NoForgottenAgent == OverlapQuiet => DOMAIN agents \subseteq syncedAgents

\* the server creates the agent in this step
CreatedOnServer(id) == id \notin DOMAIN agents /\ id \in DOMAIN agents'

\* the cycle under way started after reap asked the server to remove the agent
CycleAfterReap(id) == id \in DOMAIN reapLog.reapedAt /\ cycles > reapLog.reapedAt[id]

C37_Step == \A id \in ReapIds : CreatedOnServer(id) => ~CycleAfterReap(id)

\* C37: the log files staying as they are, no refresh-and-sync cycle started
\* after reap removed a session creates that session's agent on the server
C37_NoRecreationAfterReap == [][C37_Step]_vars


\* ------------------------------------------------------------------ C38
\* the records of the well-formed lines among the first n bytes of the file
RecordsWithin(n) == parseJsonlContent(SubSeq(fileContent, 1, n))

C38_Step ==
  ReadReturns =>
    RecordsWithin(readCall.currentSize)
      = RecordsWithin(readCall.lastPosition) \o readResult'[1]

\* C38: every read returns exactly the records of the well-formed lines that
\* the file has gained up to the new offset, so that the reads together
\* return every appended line once, a line written in two pieces included
C38_EveryLineReturnedOnce == [][C38_Step]_vars


\* ------------------------------------------------------------------ C39
\* C39: between the handlers every IDLE agent has an assigned idle action or a
\* pending assignment timer, not both, and every pending timer belongs to an
\* agent of the registry that is IDLE
C39_ActionOrTimer ==
  /\ \A i \in DOMAIN agents :
       agents[i].state = "IDLE" => (HoldsIdleAction(i) <=> i \notin pendingTimers)
  /\ \A id \in pendingTimers : id \in DOMAIN agents /\ agents[id].state = "IDLE"
====
